---- MODULE Spec2Model ----
(***************************************************************************)
(* Sequential questioning service: session/conversation resolution, batch  *)
(* question generation with its two model calls, persistence of the        *)
(* generated questions, and the three MCP endpoints with their retry       *)
(* loops.                                                                   *)
(*                                                                         *)
(* Identifiers of stored records are their creation index (1, 2, ...);     *)
(* None is the absent identifier.  A stored message keeps the columns the  *)
(* repositories query: conversation_id, message_type, sequence_number.     *)
(***************************************************************************)
EXTENDS Integers, Sequences, FiniteSets, TLC

VARIABLES sessions, conversations, messages, call, resp, ncalls, ep, result, waits, nreq,
          vector_db, metrics, writers, startup

vars == <<sessions, conversations, messages, call, resp, ncalls, ep, result, waits, nreq,
          vector_db, metrics, writers, startup>>

store == <<sessions, conversations, messages>>

----------------------------------------------------------------------------
(* Bounds of the exploration *)

\* number of direct generate_question calls explored by Spec
MaxCalls == 2
\* number of endpoint requests explored by SpecApi
MaxRequests == 1
\* number of direct generate_question calls explored by SpecResolve
MaxResolves == 3
\* longest list of question objects the model is made to return
MaxItems == 6
\* longest previous_messages list of a request
MaxPrev == 1

----------------------------------------------------------------------------
(* Program constants *)

InitialBatchSize == 5
FollowUpBatchSize == 3
HeuristicThreshold == 8
HeuristicMargin == 2
DefaultEstimate == 8
max_retries == 3
RoundCap == 3
SearchLimit == 3

None == 0
Absent == 0 - 1
\* a conversation id that names no stored conversation
UnknownId == 99

\* the absent (or empty) user identifier
NoUser == ""
Users == {"u1"}
Contexts == {"", "Plan a trip"}
Roles == {"user", "assistant"}
ErrorMessages == {"Received request before initialization was complete", "other"}
InitRace == "Received request before initialization was complete"

----------------------------------------------------------------------------
(* Repositories (persistence interface) *)

\* faulty variant of get_by_user_identifier: the lookup finds nothing
get_by_user_identifier_nothing(S, user_identifier) == None

\* UserSessionRepository.get_by_user_identifier: a session with that user
\* identifier, None when there is none
get_by_user_identifier(S, user_identifier) ==
    LET found == {s \in DOMAIN S : S[s].user_identifier = user_identifier}
    IN IF found = {} THEN None
       ELSE CHOOSE s \in found : \A t \in found : s <= t

\* BaseRepository.get on conversations
get_conversation(C, id) == IF id \in DOMAIN C THEN id ELSE None

\* faulty variant of get_active_by_user_session_id: the lookup finds nothing
get_active_by_user_session_id_nothing(C, user_session_id) == None

\* ConversationRepository.get_active_by_user_session_id: the most recently
\* created active conversation of the session
get_active_by_user_session_id(C, user_session_id) ==
    LET found == {c \in DOMAIN C : C[c].user_session_id = user_session_id /\ C[c].is_active}
    IN IF found = {} THEN None
       ELSE CHOOSE c \in found : \A d \in found : d <= c

MessagesOf(M, conversation_id) ==
    {m \in DOMAIN M : M[m].conversation_id = conversation_id}

\* MessageRepository.get_latest_message: highest sequence number first
get_latest_message(M, conversation_id) ==
    LET found == MessagesOf(M, conversation_id)
    IN IF found = {} THEN None
       ELSE CHOOSE m \in found : \A k \in found : M[k].sequence_number <= M[m].sequence_number

\* faulty variant of get_next_sequence_number: the latest message is taken
\* over all conversations
get_next_sequence_number_global(M, conversation_id) ==
    IF Len(M) > 0 THEN M[Len(M)].sequence_number + 1 ELSE 1

\* faulty variant of get_next_sequence_number: the stored messages are not
\* looked at
get_next_sequence_number_first(M, conversation_id) == 1

\* MessageRepository.get_next_sequence_number
get_next_sequence_number(M, conversation_id) ==
    LET latest_message == get_latest_message(M, conversation_id)
    IN IF latest_message # None THEN M[latest_message].sequence_number + 1 ELSE 1

\* faulty variant of count_by_conversation: the conversation is not looked at
count_by_conversation_any(M, conversation_id, message_type) ==
    Cardinality({m \in DOMAIN M : M[m].message_type = message_type})

\* MessageRepository.count_by_conversation
count_by_conversation(M, conversation_id, message_type) ==
    Cardinality({m \in MessagesOf(M, conversation_id) : M[m].message_type = message_type})

----------------------------------------------------------------------------
(* Start of the vector store service *)

\* default of max_retries in _ensure_collection_exists_with_retry
ensure_max_retries == 5

\* default of retry_delay, in milliseconds
EnsureRetryDelay == 2000

\* what a call of the Qdrant client may do: return, or raise one of the two
\* httpx connection errors or anything else
ClientOutcomes == {"ok", "ConnectError", "ConnectTimeout", "other"}

\* faulty variant of IsConnectionError: every exception is caught
IsConnectionErrorAny(outcome) == outcome # "ok"

\* except (httpx.ConnectError, httpx.ConnectTimeout)
IsConnectionError(outcome) == outcome \in {"ConnectError", "ConnectTimeout"}

\* the frame of _ensure_collection_exists_with_retry and what it leaves
\* behind: exists tells whether the collection is in Qdrant, calls counts the
\* calls of _ensure_collection_exists, client_calls the calls of the Qdrant
\* client, last is what the last client call did, sleeps the delays slept, log the exceptions warned about, outcome
\* how the function ended (returned after a success, gave_up after the last
\* connection error, raised)
NoStartup ==
    [pc |-> "idle", exists |-> FALSE, retries |-> 0, retry_delay |-> 0, calls |-> 0,
     client_calls |-> 0, last |-> "none", sleeps |-> <<>>, log |-> <<>>, outcome |-> "none"]

\* the except branch of _ensure_collection_exists_with_retry, or the
\* propagation of an exception it does not catch
EnsureFailed(s, outcome) ==
    IF IsConnectionError(outcome)
    THEN LET retries == s.retries + 1
         IN IF retries < ensure_max_retries
            THEN [s EXCEPT !.pc = "get_collections", !.retries = retries,
                           !.last = outcome, !.log = Append(@, outcome),
                           !.sleeps = Append(@, s.retry_delay),
                           !.retry_delay = (s.retry_delay * 3) \div 2]
            ELSE [s EXCEPT !.pc = "done", !.retries = retries,
                           !.last = outcome, !.log = Append(@, outcome),
                           !.outcome = "gave_up"]
    ELSE [s EXCEPT !.pc = "done", !.last = outcome, !.outcome = "raised"]

\* _ensure_collection_exists up to the answer of client.get_collections
ensure_get_collections(s, outcome) ==
    LET called == [s EXCEPT !.calls = @ + 1, !.client_calls = @ + 1]
    IN IF outcome # "ok" THEN EnsureFailed(called, outcome)
       ELSE IF called.exists
       THEN [called EXCEPT !.pc = "done", !.last = outcome, !.outcome = "returned"]
       ELSE [called EXCEPT !.pc = "create_collection", !.last = outcome]

\* _ensure_collection_exists from client.create_collection on
ensure_create_collection(s, outcome) ==
    LET called == [s EXCEPT !.client_calls = @ + 1]
    IN IF outcome # "ok" THEN EnsureFailed(called, outcome)
       ELSE [called EXCEPT !.pc = "done", !.exists = TRUE, !.last = outcome,
                           !.outcome = "returned"]

----------------------------------------------------------------------------
(* Vector store *)

\* a point id or an id handed to store_embedding: the kind of text it is, and
\* for a generated id the rank of its uuid4 among those drawn so far
NoId == [kind |-> "none", n |-> 0]

\* ids a caller can hand in: digits, a uuid, a uuid in braces, a text with a
\* dash that is no uuid, a text that starts with fallback-
GivenIds ==
    {[kind |-> k, n |-> 0] : k \in {"numeric", "uuid", "braced_uuid", "dashed", "fallback_like"}}

Uuid4(n) == [kind |-> "uuid4", n |-> n]

FallbackId(n) == [kind |-> "fallback", n |-> n]

\* id.startswith("fallback-")
StartsWithFallback(id) == id.kind \in {"fallback", "fallback_like"}

\* (id.startswith("{") and id.endswith("}")) or "-" in id
LooksLikeUuid(id) == id.kind \in {"uuid", "braced_uuid", "dashed", "fallback_like"}

\* uuid.UUID(id) does not raise
ParsesAsUuid(id) == id.kind \in {"uuid", "braced_uuid"}

\* the id under which store_embedding upserts: str(uuid.UUID(id)) for a
\* given uuid (braces are dropped), a new uuid4 otherwise
PointId(id, n) ==
    IF id # NoId /\ LooksLikeUuid(id) /\ ParsesAsUuid(id)
    THEN [kind |-> "uuid", n |-> 0]
    ELSE Uuid4(n)

NoStore == [id |-> NoId, embedding_failed |-> FALSE, upsert_failed |-> FALSE,
            raised |-> FALSE, returned |-> NoId]

\* the collection, the number of uuid4 drawn, the number of calls of
\* store_embedding and the last of them with what it returned
NoVectors == [points |-> <<>>, uuids |-> 0, calls |-> 0, last |-> NoStore]

\* client.upsert: the point replaces the one with its id or is added
Upsert(points, point) ==
    IF \E i \in DOMAIN points : points[i].id = point.id
    THEN [i \in DOMAIN points |-> IF points[i].id = point.id THEN point ELSE points[i]]
    ELSE Append(points, point)

\* VectorDBService._get_embedding: a failure of the embedding is caught and
\* a zero vector is returned
get_embedding(fails) == IF fails THEN "zero" ELSE "embedded"

\* VectorDBService.store_embedding.  embedding_fails and upsert_fails tell
\* which of its two remote calls raise.
store_embedding(V, metadata, id, embedding_fails, upsert_fails) ==
    LET embedding == get_embedding(embedding_fails)
        drawn == IF PointId(id, V.uuids + 1).kind = "uuid4" THEN V.uuids + 1 ELSE V.uuids
        point_id == PointId(id, V.uuids + 1)
        call_made == [id |-> id, embedding_failed |-> embedding_fails,
                      upsert_failed |-> upsert_fails, raised |-> FALSE, returned |-> NoId]
    IN IF upsert_fails
       THEN [points |-> V.points,
             uuids |-> IF id # NoId THEN drawn ELSE drawn + 1,
             calls |-> V.calls + 1,
             last |-> [call_made EXCEPT
                          !.returned = IF id # NoId THEN id ELSE FallbackId(drawn + 1)]]
       ELSE [points |-> Upsert(V.points, [id |-> point_id, vector |-> embedding,
                                          payload |-> metadata]),
             uuids |-> drawn,
             calls |-> V.calls + 1,
             last |-> [call_made EXCEPT !.returned = point_id]]

\* which calls of store_embedding made for a batch fail, by array index
NoVectorFault == [embedding |-> {}, upsert |-> {}]

----------------------------------------------------------------------------
(* Session / conversation resolution *)

\* QuestionGenerationService._get_or_create_session
get_or_create_session(S, user_id) ==
    LET session == IF user_id # NoUser THEN get_by_user_identifier(S, user_id) ELSE None
    IN IF session = None
       THEN [id |-> Len(S) + 1, sessions |-> Append(S, [user_identifier |-> user_id])]
       ELSE [id |-> session, sessions |-> S]

\* QuestionGenerationService._get_or_create_conversation
get_or_create_conversation(C, session_id, conversation_id) ==
    LET direct == IF conversation_id # None THEN get_conversation(C, conversation_id) ELSE None
        conversation == IF direct = None
                        THEN get_active_by_user_session_id(C, session_id)
                        ELSE direct
    IN IF conversation = None
       THEN [id |-> Len(C) + 1,
             conversations |-> Append(C, [user_session_id |-> session_id, is_active |-> TRUE])]
       ELSE [id |-> conversation, conversations |-> C]

\* previous_messages of a request: absent (is_none) or a list of messages,
\* of which the role is kept
PreviousLists ==
    {[is_none |-> FALSE, roles |-> r] : r \in UNION {[1..n -> Roles] : n \in 0..MaxPrev}}

PreviousMessages == {[is_none |-> TRUE, roles |-> <<>>]} \cup PreviousLists

\* QuestionGenerationService._format_previous_messages (the flag it returns)
has_previous_messages(previous_messages) ==
    ~previous_messages.is_none /\ Len(previous_messages.roles) > 0

\* QuestionGenerationService._get_last_user_message: index of the last
\* message whose role is "user", None when there is none
get_last_user_message(previous_messages) ==
    IF ~has_previous_messages(previous_messages) THEN None
    ELSE LET found == {i \in DOMAIN previous_messages.roles : previous_messages.roles[i] = "user"}
         IN IF found = {} THEN None ELSE CHOOSE i \in found : \A j \in found : j <= i

----------------------------------------------------------------------------
(* Language-model output and its tolerant parsing *)

\* keys of a question object as the model wrote them, in order
ItemKeySets ==
    { <<"question_text">>,
      <<"question_text", "question_number">>,
      <<"question">>,
      <<"importance_explanation">>,
      <<"question_number">> }

\* the i-th element of a model-written list: a question object with the given
\* keys (its question_number, when present, is the model's own count i), or
\* a bare string when is_dict is false
ModelItem(is_dict, keys, i) == [is_dict |-> is_dict, keys |-> keys, question_number |-> i]

ModelList(is_dict, keys, n) == [i \in 1..n |-> ModelItem(is_dict, keys, i)]

ModelLists ==
    {ModelList(TRUE, k, n) : k \in ItemKeySets, n \in 0..MaxItems} \cup
    {ModelList(FALSE, <<>>, n) : n \in 1..MaxItems}

\* JSON values a first response may carry
BatchJson ==
    {[t |-> "list", questions_key |-> FALSE, items |-> l] : l \in ModelLists} \cup
    {[t |-> "object", questions_key |-> TRUE, items |-> l] : l \in ModelLists} \cup
    {[t |-> "object", questions_key |-> FALSE, items |-> ModelList(TRUE, k, 1)] : k \in ItemKeySets} \cup
    {[t |-> "scalar", questions_key |-> FALSE, items |-> <<>>]}

Garbage == [t |-> "garbage", questions_key |-> FALSE, items |-> <<>>]

\* no fence, a json-tagged code fence, an untagged code fence
Fences == {"none", "json_fence", "plain_fence"}

\* the fence stripping of _generate_question_batch followed by json.loads:
\* the body between the fences, or the whole text when there is no fence
json_loads(content) ==
    IF content.fence = "none" /\ content.prose THEN [ok |-> FALSE, value |-> Garbage]
    ELSE IF content.body.t = "garbage" THEN [ok |-> FALSE, value |-> Garbage]
    ELSE [ok |-> TRUE, value |-> content.body]

\* "question" in key.lower()
ContainsQuestion(key) == key \in {"question_text", "question", "question_number"}

HasKey(q, key) == \E j \in DOMAIN q.keys : q.keys[j] = key

\* value stored under a key of a model-written question object; the value of
\* question_number is an integer, not a string
ValueOf(key) == IF key = "question_number" THEN "<int>" ELSE "model"

\* repair of one question object (index is the 0-based enumerate index)
RepairItem(q, index, starting_question_number) ==
    LET candidates == {j \in DOMAIN q.keys : ContainsQuestion(q.keys[j])}
        first == CHOOSE j \in candidates : \A k \in candidates : j <= k
        text == IF HasKey(q, "question_text") THEN "model"
                ELSE IF candidates # {} THEN ValueOf(q.keys[first])
                ELSE "placeholder"
        number == IF HasKey(q, "question_number") THEN q.question_number
                  ELSE starting_question_number + index
    IN [question_text |-> text, question_number |-> number]

\* faulty variant of FillerQuestion: the number is one too high
FillerQuestionShifted(starting_question_number, length) ==
    [question_text |-> "filler", question_number |-> starting_question_number + length + 1]

\* the filler appended while the batch is short
FillerQuestion(starting_question_number, length) ==
    [question_text |-> "filler", question_number |-> starting_question_number + length]

RECURSIVE Pad(_, _, _)
Pad(questions_batch, batch_size, starting_question_number) ==
    IF Len(questions_batch) < batch_size
    THEN Pad(Append(questions_batch, FillerQuestion(starting_question_number, Len(questions_batch))),
             batch_size, starting_question_number)
    ELSE questions_batch

\* faulty variant of Truncate: the slice is forgotten
TruncateForgotten(questions_batch, batch_size) == questions_batch

\* questions_batch[:batch_size]
Truncate(questions_batch, batch_size) ==
    IF Len(questions_batch) > batch_size THEN SubSeq(questions_batch, 1, batch_size)
    ELSE questions_batch

\* first half of the try block of _generate_question_batch: parse, reshape,
\* repair, truncate and pad; ok is false when any of it raises, kept is
\* len(questions_batch) between the truncation and the padding
ParseBatch(content, batch_size, starting_question_number) ==
    LET parsed == json_loads(content)
        json == parsed.value
        items == json.items
        raises == \/ ~parsed.ok
                  \/ json.t = "scalar"
                  \/ \E i \in DOMAIN items : ~items[i].is_dict
        repaired == [i \in DOMAIN items |-> RepairItem(items[i], i - 1, starting_question_number)]
    IN IF raises THEN [ok |-> FALSE, kept |-> 0, questions_batch |-> <<>>]
       ELSE [ok |-> TRUE,
             kept |-> Len(Truncate(repaired, batch_size)),
             questions_batch |-> Pad(Truncate(repaired, batch_size), batch_size, starting_question_number)]

\* the heuristic used when the continuation assessment is not available
HeuristicNext(starting_question_number, length) ==
    starting_question_number + length < HeuristicThreshold

\* faulty variant of HeuristicTotal: the estimate has no floor
HeuristicTotalNoFloor(starting_question_number, length) ==
    starting_question_number + length + HeuristicMargin

HeuristicTotal(starting_question_number, length) ==
    LET v == starting_question_number + length + HeuristicMargin
    IN IF v > HeuristicThreshold THEN v ELSE HeuristicThreshold

\* batch_metadata right after the batch is built
DefaultMetadata(questions_batch, starting_question_number) ==
    [batch_size |-> Len(questions_batch),
     starting_question_number |-> starting_question_number,
     ending_question_number |-> starting_question_number + Len(questions_batch) - 1,
     next_batch_needed |-> TRUE,
     total_questions_estimated |-> Absent,
     fallback_generation |-> FALSE]

\* the except branch of _generate_question_batch
FallbackQuestions(batch_size, starting_question_number) ==
    [i \in 1..batch_size |->
        [question_text |-> "fallback", question_number |-> starting_question_number + (i - 1)]]

\* faulty variant of FallbackMetadata: the flag is not set
FallbackMetadataUnflagged(batch_size, starting_question_number) ==
    [batch_size |-> batch_size,
     starting_question_number |-> starting_question_number,
     ending_question_number |-> starting_question_number + batch_size - 1,
     next_batch_needed |-> HeuristicNext(starting_question_number, batch_size),
     total_questions_estimated |-> HeuristicTotal(starting_question_number, batch_size),
     fallback_generation |-> FALSE]

FallbackMetadata(batch_size, starting_question_number) ==
    [batch_size |-> batch_size,
     starting_question_number |-> starting_question_number,
     ending_question_number |-> starting_question_number + batch_size - 1,
     next_batch_needed |-> HeuristicNext(starting_question_number, batch_size),
     total_questions_estimated |-> HeuristicTotal(starting_question_number, batch_size),
     fallback_generation |-> TRUE]

\* JSON values a continuation assessment may carry
EstimateSamples == {12}

MetadataJson ==
    {[t |-> "object", has_next |-> FALSE, next_batch_needed |-> TRUE,
      has_total |-> FALSE, total_questions_estimated |-> Absent]} \cup
    {[t |-> "object", has_next |-> TRUE, next_batch_needed |-> b,
      has_total |-> TRUE, total_questions_estimated |-> e] : b \in BOOLEAN, e \in EstimateSamples}

MetadataGarbage ==
    [t |-> "garbage", has_next |-> FALSE, next_batch_needed |-> TRUE,
     has_total |-> FALSE, total_questions_estimated |-> Absent]

\* inner try block: the assessment updates batch_metadata, or the heuristic
\* replaces it when the text does not parse
ApplyAssessment(batch_metadata, content) ==
    LET parsed == json_loads(content)
        metadata_json == parsed.value
        length == batch_metadata.batch_size
        start == batch_metadata.starting_question_number
    IN IF ~parsed.ok
       THEN [batch_metadata EXCEPT !.next_batch_needed = HeuristicNext(start, length),
                                   !.total_questions_estimated = HeuristicTotal(start, length)]
       ELSE [batch_metadata EXCEPT
                !.next_batch_needed = IF metadata_json.has_next
                                      THEN metadata_json.next_batch_needed ELSE @,
                !.total_questions_estimated = IF metadata_json.has_total
                                              THEN metadata_json.total_questions_estimated ELSE @]

----------------------------------------------------------------------------
(* generate_question: requests, responses, the frame of a call in progress *)

\* requests a client can send when the conversations C are stored: the
\* conversation id is absent, names a stored conversation, or names none.
\* generate_question never reads session_id.
Requests(C, unknown, previous) ==
    [user_id : {NoUser} \cup Users,
     conversation_id : {None} \cup unknown \cup DOMAIN C,
     session_id : {None},
     context : Contexts,
     previous_messages : previous]

\* the same requests, also carrying the id of a stored session or none
RequestsWithSession(S, C, unknown, previous) ==
    [user_id : {NoUser} \cup Users,
     conversation_id : {None} \cup unknown \cup DOMAIN C,
     session_id : {None} \cup DOMAIN S,
     context : Contexts,
     previous_messages : previous]

NoRequest ==
    [user_id |-> NoUser, conversation_id |-> None, session_id |-> None,
     context |-> "", previous_messages |-> [is_none |-> TRUE, roles |-> <<>>]]

NoMetadata ==
    [batch_size |-> 0, starting_question_number |-> 0, ending_question_number |-> 0,
     next_batch_needed |-> FALSE, total_questions_estimated |-> Absent,
     fallback_generation |-> FALSE]

\* the context handed to the model: the request's text and the number of
\* lines of similar content appended to it
NoContext == [text |-> "", additional |-> 0]

IdleCall ==
    [pc |-> "idle", request |-> NoRequest, session_id |-> None, conversation_id |-> None,
     searches |-> <<>>, context |-> NoContext,
     similar_contexts |-> "unbound", starting_question_number |-> 0, batch_size |-> 0,
     kept |-> 0, questions_batch |-> <<>>, batch_metadata |-> NoMetadata]

NoResponse ==
    [questions |-> <<>>, conversation_id |-> None, session_id |-> None,
     current_question_number |-> 0, total_questions_in_batch |-> 0,
     total_questions_estimated |-> 0, next_batch_needed |-> FALSE,
     metadata |-> [context_enhanced |-> FALSE, question_type |-> "none",
                   batch_metadata |-> NoMetadata]]

\* the persistence of a batch as it ended: the conversation written to and
\* the array index of the question whose message could not be created (0:
\* none)
NoPersist == [conversation_id |-> None, failed_at |-> 0]

\* how a call of generate_question ended.  first_call and second_call record
\* what the two model calls of that call did ("none": not reached,
\* "unparsable": the second call returned a text that json.loads rejects),
\* persist how its persistence loop ended
NoOutcome ==
    [status |-> "none", response |-> NoResponse, error |-> "",
     first_call |-> "none", second_call |-> "none", persist |-> NoPersist]

Raised(error, first_call) ==
    [status |-> "raised", response |-> NoResponse, error |-> error,
     first_call |-> first_call, second_call |-> "none", persist |-> NoPersist]

Returned(response) ==
    [status |-> "returned", response |-> response, error |-> "",
     first_call |-> "returned", second_call |-> "none", persist |-> NoPersist]

\* batch size chosen by generate_question
BatchSize(previous_messages) ==
    IF ~has_previous_messages(previous_messages) THEN InitialBatchSize ELSE FollowUpBatchSize

\* whether the similarity search is issued
SearchIssued(request) ==
    /\ has_previous_messages(request.previous_messages)
    /\ request.context # ""
    /\ get_last_user_message(request.previous_messages) # None

\* database faults of the resolution phase
ResolveFaults == {"none", "session", "conversation"}

\* the store's answer to a search is the number of matching points it holds,
\* or SearchFails when the embedding or the query raises
SearchFails == Absent

\* VectorDBService.search_similar: the number of results returned, at most
\* limit; an internal failure is caught and gives the empty list
search_similar(found, limit) ==
    IF found = SearchFails THEN 0
    ELSE IF found > limit THEN limit ELSE found

\* the search generate_question issues, as the vector store sees it
SearchRecord(conversation_id, found) ==
    [filter_conversation_id |-> conversation_id, limit |-> SearchLimit,
     failed |-> found = SearchFails]

\* faulty variant of EnhanceContext: the heading is appended even when
\* nothing was found
EnhanceContextAlways(context, results) ==
    [text |-> context, additional |-> results + 1]

\* the context after the enrichment: one line per result is appended under
\* a heading when there are results
EnhanceContext(context, results) ==
    [text |-> context, additional |-> results]

\* generate_question up to its first model call: resolve the session and the
\* conversation (each its own commit), enrich the context, count the stored
\* questions.  fault names the repository call that raises, hits the number
\* of matching points the vector store holds, or SearchFails.
begin_generate_question(request, fault, error, hits) ==
    LET s == get_or_create_session(sessions, request.user_id)
        c == get_or_create_conversation(conversations, s.id, request.conversation_id)
    IN /\ ncalls' = ncalls + 1
       /\ UNCHANGED <<messages, vector_db>>
       /\ IF fault = "session"
          THEN /\ UNCHANGED <<sessions, conversations>>
               /\ call' = IdleCall
               /\ resp' = Raised(error, "none")
          ELSE IF fault = "conversation"
          THEN /\ sessions' = s.sessions
               /\ UNCHANGED conversations
               /\ call' = IdleCall
               /\ resp' = Raised(error, "none")
          ELSE /\ sessions' = s.sessions
               /\ conversations' = c.conversations
               /\ resp' = NoOutcome
               /\ call' = [pc |-> "llm1", request |-> request,
                           session_id |-> s.id, conversation_id |-> c.id,
                           searches |-> IF SearchIssued(request)
                                        THEN <<SearchRecord(c.id, hits)>> ELSE <<>>,
                           context |-> IF SearchIssued(request)
                                       THEN EnhanceContext(request.context,
                                                           search_similar(hits, SearchLimit))
                                       ELSE EnhanceContext(request.context, 0),
                           similar_contexts |->
                               IF ~SearchIssued(request) THEN "unbound"
                               ELSE IF search_similar(hits, SearchLimit) = 0
                               THEN "empty" ELSE "found",
                           starting_question_number |->
                               count_by_conversation(messages, c.id, "question") + 1,
                           batch_size |-> BatchSize(request.previous_messages),
                           kept |-> 0,
                           questions_batch |-> <<>>,
                           batch_metadata |-> NoMetadata]

\* replies of the language model: the call raises, or returns a text.  The
\* text is a body alone, a body in a code fence after some prose, a body in
\* an untagged fence, or prose around an unfenced body.
Contents(bodies, garbage) ==
    {[prose |-> FALSE, fence |-> "none", body |-> b] : b \in bodies \cup {garbage}} \cup
    {[prose |-> TRUE, fence |-> "json_fence", body |-> b] : b \in bodies} \cup
    {[prose |-> FALSE, fence |-> "plain_fence", body |-> b] : b \in bodies} \cup
    {[prose |-> TRUE, fence |-> "none", body |-> b] : b \in {garbage}}

BatchReplies(errors) ==
    {[raises |-> TRUE, error |-> e, content |-> [prose |-> FALSE, fence |-> "none", body |-> Garbage]]
        : e \in errors} \cup
    {[raises |-> FALSE, error |-> "", content |-> c] : c \in Contents(BatchJson, Garbage)}

MetadataReplies ==
    {[raises |-> TRUE, error |-> "other",
      content |-> [prose |-> FALSE, fence |-> "none", body |-> MetadataGarbage]]} \cup
    {[raises |-> FALSE, error |-> "", content |-> c]
        : c \in Contents(MetadataJson, MetadataGarbage)}

\* batch_number as generate_question computes it for a question
batch_number(question_number, batch_size) == 1 + (question_number - 1) \div batch_size

\* the metadata dict generate_question builds for the message of question q:
\* the number of the question, which the response and the vector payload
\* carry too, and its batch_number.  MessageCreate declares message_metadata
\* and no field named metadata, so the row keeps the dict in no column and
\* no operation reads it back
MessageMetadata(q, batch_size) ==
    [question_number |-> q.question_number,
     batch_number |-> batch_number(q.question_number, batch_size)]

\* faulty variant of PersistQuestions: the sequence number is read once for
\* the whole batch
PersistQuestionsOneRead(M, c, count) ==
    M \o [i \in 1..count |->
            [conversation_id |-> c.conversation_id,
             message_type |-> "question",
             batch_index |-> i,
             metadata |-> MessageMetadata(c.questions_batch[i], c.batch_size),
             sequence_number |-> get_next_sequence_number(M, c.conversation_id)]]

\* the messages of M followed by one question message per element of the
\* first count questions, each with the next sequence number; batch_index is
\* the array index of the question a message was written for
RECURSIVE PersistQuestions(_, _, _)
PersistQuestions(M, c, count) ==
    IF count = 0 THEN M
    ELSE LET before == PersistQuestions(M, c, count - 1)
         IN Append(before, [conversation_id |-> c.conversation_id,
                            message_type |-> "question",
                            batch_index |-> count,
                            metadata |-> MessageMetadata(c.questions_batch[count], c.batch_size),
                            sequence_number |-> get_next_sequence_number(before, c.conversation_id)])

\* the payload stored with the text of the question at array index i;
\* message is the number of messages stored when store_embedding is called
Payload(c, i, stored) ==
    [type |-> "question", conversation_id |-> c.conversation_id,
     session_id |-> c.session_id, batch_index |-> i, message |-> stored]

\* the collection after store_embedding was called for each of the first
\* count questions, each call right after the creation of its message
RECURSIVE IndexQuestions(_, _, _, _, _)
IndexQuestions(V, c, stored, count, vfault) ==
    IF count = 0 THEN V
    ELSE store_embedding(IndexQuestions(V, c, stored, count - 1, vfault),
                         Payload(c, count, stored + count), NoId,
                         count \in vfault.embedding, count \in vfault.upsert)

\* QuestionItem list of the response
QuestionItems(questions_batch) ==
    [i \in DOMAIN questions_batch |->
        [question_text |-> questions_batch[i].question_text,
         question_number |-> questions_batch[i].question_number]]

\* MessageCreate rejects a content that is not a string
FirstInvalid(questions_batch) ==
    LET bad == {i \in DOMAIN questions_batch : questions_batch[i].question_text = "<int>"}
    IN IF bad = {} THEN 0 ELSE CHOOSE i \in bad : \A j \in bad : i <= j

BuildResponse(c) ==
    [questions |-> QuestionItems(c.questions_batch),
     conversation_id |-> c.conversation_id,
     session_id |-> c.session_id,
     current_question_number |-> c.starting_question_number,
     total_questions_in_batch |-> Len(c.questions_batch),
     total_questions_estimated |->
         IF c.batch_metadata.total_questions_estimated = Absent THEN DefaultEstimate
         ELSE c.batch_metadata.total_questions_estimated,
     next_batch_needed |-> c.batch_metadata.next_batch_needed,
     metadata |-> [context_enhanced |-> c.similar_contexts = "found",
                   question_type |-> IF ~has_previous_messages(c.request.previous_messages)
                                     THEN "initial" ELSE "follow_up",
                   batch_metadata |-> c.batch_metadata]]

\* the response reads similar_contexts, which is bound only when the search
\* was issued
ReadsUnbound(c) ==
    /\ has_previous_messages(c.request.previous_messages)
    /\ c.request.context # ""
    /\ c.similar_contexts = "unbound"

\* generate_question after the batch c.questions_batch is built: persist the
\* questions in array order, each in its own commit, then build the
\* response.  fault is the 1-based index of the message whose creation
\* raises (0: none).
persist_and_respond(c, fault, vfault, error, second_call) ==
    LET invalid == FirstInvalid(c.questions_batch)
        failing == IF fault = 0 THEN invalid
                   ELSE IF invalid = 0 THEN fault
                   ELSE IF invalid < fault THEN invalid ELSE fault
        written == IF failing = 0 THEN Len(c.questions_batch) ELSE failing - 1
    IN /\ messages' = PersistQuestions(messages, c, written)
       /\ vector_db' = IndexQuestions(vector_db, c, Len(messages), written, vfault)
       /\ call' = IdleCall
       /\ IF failing # 0
          THEN resp' = [Raised(IF failing = fault THEN error ELSE "other", "returned")
                           EXCEPT !.second_call = second_call,
                                  !.persist = [conversation_id |-> c.conversation_id,
                                               failed_at |-> failing]]
          ELSE IF ReadsUnbound(c)
          THEN resp' = [Raised("other", "returned") EXCEPT !.second_call = second_call]
          ELSE resp' = [Returned(BuildResponse(c)) EXCEPT !.second_call = second_call]

\* the frame once the except branch of _generate_question_batch has run
WithFallback(c) ==
    [c EXCEPT !.questions_batch = FallbackQuestions(c.batch_size, c.starting_question_number),
              !.batch_metadata = FallbackMetadata(c.batch_size, c.starting_question_number)]

\* _generate_question_batch, first model call (outside the try block) and
\* the processing of its response; when the processing raises, the fallback
\* batch is returned and generate_question persists it
first_model_call(reply, fault, vfault, error) ==
    /\ call.pc = "llm1"
    /\ UNCHANGED <<sessions, conversations, ncalls>>
    /\ IF reply.raises
       THEN /\ fault = 0 /\ vfault = NoVectorFault
            /\ call' = IdleCall
            /\ resp' = Raised(reply.error, "raised")
            /\ UNCHANGED <<messages, vector_db>>
       ELSE LET parsed == ParseBatch(reply.content, call.batch_size, call.starting_question_number)
            IN IF parsed.ok
               THEN /\ fault = 0 /\ vfault = NoVectorFault
                    /\ call' = [call EXCEPT !.pc = "llm2",
                                    !.kept = parsed.kept,
                                    !.questions_batch = parsed.questions_batch,
                                    !.batch_metadata = DefaultMetadata(parsed.questions_batch,
                                                                       call.starting_question_number)]
                    /\ UNCHANGED <<messages, vector_db, resp>>
               ELSE /\ fault \in 0..call.batch_size
                    /\ vfault.embedding \cup vfault.upsert \subseteq 1..call.batch_size
                    /\ persist_and_respond(WithFallback(call), fault, vfault, error, "none")

\* _generate_question_batch, second model call (inside the try block), and
\* the rest of generate_question
second_model_call(reply, fault, vfault, error) ==
    /\ call.pc = "llm2"
    /\ fault \in 0..call.batch_size
    /\ vfault.embedding \cup vfault.upsert \subseteq 1..call.batch_size
    /\ UNCHANGED <<sessions, conversations, ncalls>>
    /\ IF reply.raises
       THEN persist_and_respond(WithFallback(call), fault, vfault, error, "raised")
       ELSE persist_and_respond(
                [call EXCEPT !.batch_metadata = ApplyAssessment(call.batch_metadata, reply.content)],
                fault, vfault, error,
                IF json_loads(reply.content).ok THEN "returned" ELSE "unparsable")

----------------------------------------------------------------------------
(* Endpoint handlers *)

NoAutomatic ==
    [initial_questions |-> NoResponse, follow_up_questions |-> <<>>,
     conversation_id |-> None, session_id |-> None, total_questions |-> 0,
     rounds_generated |-> 0, auto_follow_up |-> FALSE]

NoResult ==
    [status |-> "none", status_code |-> 0, attempts_named |-> 0, error |-> "",
     response |-> NoResponse, automatic |-> NoAutomatic]

\* the frame of a handler.  attempts counts the passes of its loop,
\* conversations_at_receipt the conversations stored when the request
\* arrived, calls_at_receipt the calls of generate_question made before it
\* arrived, bootstrapped tells that a follow-up arrived without conversation
\* id, failed how the persistence of the last failed pass ended; the handler
\* reads none of the five
IdleEp ==
    [pc |-> "idle", endpoint |-> "none", request |-> NoRequest, retry_count |-> 0,
     attempts |-> 0, conversations_at_receipt |-> 0, calls_at_receipt |-> 0,
     bootstrapped |-> FALSE,
     failed |-> NoPersist,
     auto_handle_follow_up |-> FALSE, max_rounds |-> 0,
     initial_questions |-> NoResponse, follow_up_rounds |-> <<>>,
     all_questions |-> <<>>, current_round |-> 0, round_limit |-> 0]

Endpoints == {"question", "follow_up", "automatic"}

\* asyncio.sleep durations, in milliseconds
InitRaceDelay == 1000
BackoffBase == 500

RECURSIVE Pow2(_)
Pow2(n) == IF n = 0 THEN 1 ELSE 2 * Pow2(n - 1)

\* faulty variant of Backoff: the delay does not grow
BackoffConstant(retry_count) == BackoffBase

\* 0.5 * (2 ** (retry_count - 1)) seconds
Backoff(retry_count) == BackoffBase * Pow2(retry_count - 1)

HttpError(status_code, attempts_named, error) ==
    [NoResult EXCEPT !.status = "http_error", !.status_code = status_code,
                     !.attempts_named = attempts_named, !.error = error]

\* Metrics._initialize: the counters (response times are not kept)
NoMetrics == [requests |-> 0, errors |-> 0, endpoints |-> [e \in {} |-> 0]]

NewEndpointMetrics == [requests |-> 0, errors |-> 0]

\* faulty variant of track_request: every request counts as an error
track_request_all_errors(m, endpoint, status_code) ==
    LET known == IF endpoint \in DOMAIN m.endpoints THEN m.endpoints[endpoint]
                 ELSE NewEndpointMetrics
    IN [requests |-> m.requests + 1,
        errors |-> m.errors + 1,
        endpoints |-> [e \in DOMAIN m.endpoints \cup {endpoint} |->
                          IF e = endpoint
                          THEN [requests |-> known.requests + 1, errors |-> known.errors + 1]
                          ELSE m.endpoints[e]]]

\* Metrics.track_request
track_request(m, endpoint, status_code) ==
    LET known == IF endpoint \in DOMAIN m.endpoints THEN m.endpoints[endpoint]
                 ELSE NewEndpointMetrics
        error == IF status_code >= 400 THEN 1 ELSE 0
    IN [requests |-> m.requests + 1,
        errors |-> m.errors + error,
        endpoints |-> [e \in DOMAIN m.endpoints \cup {endpoint} |->
                          IF e = endpoint
                          THEN [requests |-> known.requests + 1,
                                errors |-> known.errors + error]
                          ELSE m.endpoints[e]]]

\* the log_request wrapper around a handler: when the handler ends in this
\* step the request is tracked, with status 500 when the handler raised and
\* 200 otherwise
log_request(endpoint) ==
    metrics' = IF ep'.pc = "done"
               THEN track_request(metrics, endpoint,
                                  IF result'.status = "http_error" THEN 500 ELSE 200)
               ELSE metrics

\* no concurrent writer
NoWriters == [w \in {} |-> 0]

\* a request arrives at an endpoint
Receive(endpoint, request, auto_handle_follow_up, rounds) ==
    /\ ep.pc \in {"idle", "done"}
    /\ call.pc = "idle"
    /\ nreq < MaxRequests
    /\ endpoint # "automatic" => (auto_handle_follow_up /\ rounds = 2)
    /\ nreq' = nreq + 1
    /\ UNCHANGED <<writers, startup, metrics>>
    /\ ep' = [IdleEp EXCEPT !.pc = "attempt", !.endpoint = endpoint, !.request = request,
                            !.conversations_at_receipt = Len(conversations),
                            !.calls_at_receipt = ncalls,
                            !.auto_handle_follow_up = auto_handle_follow_up,
                            !.max_rounds = rounds]
    /\ result' = NoResult
    /\ waits' = <<>>
    /\ resp' = NoOutcome
    /\ UNCHANGED <<sessions, conversations, messages, vector_db, call, ncalls>>

\* the handler's frame when a pass of its loop has ended: the values bound
\* inside the try block are dead
Left(e, pc, retry_count) ==
    [e EXCEPT !.pc = pc, !.retry_count = retry_count, !.failed = resp.persist,
              !.initial_questions = NoResponse, !.follow_up_rounds = <<>>,
              !.all_questions = <<>>, !.current_round = 0, !.round_limit = 0]

\* faulty variant of RetryOrFail: the comparison with max_retries is strict
RetryOrFailStrict(error) ==
    LET retry_count == ep.retry_count + 1
    IN IF retry_count > max_retries
       THEN /\ result' = HttpError(500, max_retries, error)
            /\ ep' = Left(ep, "done", retry_count)
            /\ UNCHANGED waits
       ELSE /\ waits' = Append(waits, Backoff(retry_count))
            /\ ep' = Left(ep, "attempt", retry_count)
            /\ UNCHANGED result

\* the except branch of the retry loops of /question/follow-up and
\* /question/automatic
RetryOrFail(error) ==
    LET retry_count == ep.retry_count + 1
    IN IF retry_count >= max_retries
       THEN /\ result' = HttpError(500, max_retries, error)
            /\ ep' = Left(ep, "done", retry_count)
            /\ UNCHANGED waits
       ELSE /\ waits' = Append(waits, Backoff(retry_count))
            /\ ep' = Left(ep, "attempt", retry_count)
            /\ UNCHANGED result

\* faulty variant of RetryOrFailQuestion: the initialization error is
\* treated like any other
RetryOrFailQuestionBackoff(error) == RetryOrFail(error)

\* the except branch of the retry loop of /question
RetryOrFailQuestion(error) ==
    LET retry_count == ep.retry_count + 1
    IN IF error = InitRace
       THEN /\ waits' = Append(waits, InitRaceDelay)
            /\ IF retry_count < max_retries
               THEN /\ ep' = [ep EXCEPT !.pc = "attempt", !.retry_count = retry_count,
                                         !.failed = resp.persist]
                    /\ UNCHANGED result
               ELSE /\ ep' = [ep EXCEPT !.pc = "done", !.retry_count = retry_count,
                                         !.failed = resp.persist]
                    /\ result' = [NoResult EXCEPT !.status = "no_value"]
       ELSE RetryOrFail(error)

\* generate_sequential_question: one pass of the loop up to the call
QuestionAttempt(fault, error, hits) ==
    /\ ep.endpoint = "question" /\ ep.pc = "attempt" /\ call.pc = "idle"
    /\ begin_generate_question(ep.request, fault, error, hits)
    /\ ep' = [ep EXCEPT !.pc = "await", !.attempts = @ + 1]
    /\ UNCHANGED <<result, waits, nreq, writers, startup>>
    /\ log_request("sequential_questioning")

\* generate_sequential_question: the call has ended
QuestionResume ==
    /\ ep.endpoint = "question" /\ ep.pc = "await"
    /\ call.pc = "idle" /\ resp.status # "none"
    /\ UNCHANGED <<sessions, conversations, messages, vector_db, call, ncalls, nreq, writers, startup>>
    /\ resp' = NoOutcome
    /\ IF resp.status = "returned"
       THEN /\ result' = [NoResult EXCEPT !.status = "response", !.status_code = 200,
                                          !.response = resp.response]
            /\ ep' = [ep EXCEPT !.pc = "done"]
            /\ UNCHANGED waits
       ELSE RetryOrFailQuestion(resp.error)
    /\ log_request("sequential_questioning")

\* the request built when a follow-up arrives without a conversation id
BootstrapRequest(request) ==
    [user_id |-> request.user_id, conversation_id |-> None,
     session_id |-> request.session_id,
     context |-> IF request.context = "" THEN "Follow-up conversation" ELSE request.context,
     previous_messages |-> [is_none |-> FALSE, roles |-> <<>>]]

\* faulty variant of previous_messages_missing: an empty list passes
previous_messages_absent(request) == request.previous_messages.is_none

\* the validation of generate_follow_up_questions
previous_messages_missing(request) ==
    request.previous_messages.is_none \/ Len(request.previous_messages.roles) = 0

\* generate_follow_up_questions: one pass of the loop up to its first call
FollowUpAttempt(fault, error, hits) ==
    /\ ep.endpoint = "follow_up" /\ ep.pc = "attempt" /\ call.pc = "idle"
    /\ UNCHANGED <<waits, nreq, writers, startup>>
    /\ IF previous_messages_missing(ep.request)
       THEN /\ result' = HttpError(400, 0, "previous_messages required")
            /\ ep' = [ep EXCEPT !.pc = "done", !.attempts = @ + 1]
            /\ resp' = NoOutcome
            /\ UNCHANGED <<sessions, conversations, messages, vector_db, call, ncalls>>
       ELSE IF ep.request.conversation_id = None
       THEN /\ begin_generate_question(BootstrapRequest(ep.request), fault, error, 0)
            /\ ep' = [ep EXCEPT !.pc = "await_bootstrap", !.attempts = @ + 1,
                                !.bootstrapped = TRUE]
            /\ UNCHANGED result
       ELSE /\ begin_generate_question(ep.request, fault, error, hits)
            /\ ep' = [ep EXCEPT !.pc = "await", !.attempts = @ + 1]
            /\ UNCHANGED result
    /\ log_request("sequential_questioning_follow_up")

\* faulty variant of Bootstrapped: the request is left as it arrived
BootstrappedForgotten(request, initial_response) == request

\* the request once the bootstrap call has returned: it takes the
\* identifiers of the initial response
Bootstrapped(request, initial_response) ==
    [request EXCEPT !.conversation_id = initial_response.conversation_id,
                    !.session_id = initial_response.session_id]

\* generate_follow_up_questions: the bootstrap call has ended; on success
\* the request takes its identifiers and the follow-up call starts
FollowUpBootstrapResume(fault, error, hits) ==
    /\ ep.endpoint = "follow_up" /\ ep.pc = "await_bootstrap"
    /\ call.pc = "idle" /\ resp.status # "none"
    /\ UNCHANGED <<nreq, writers, startup>>
    /\ IF resp.status = "returned"
       THEN LET request == Bootstrapped(ep.request, resp.response)
            IN /\ begin_generate_question(request, fault, error, hits)
               /\ ep' = [ep EXCEPT !.pc = "await", !.request = request]
               /\ UNCHANGED <<result, waits>>
       ELSE /\ fault = "none" /\ error = "other" /\ hits = 0
            /\ RetryOrFail(resp.error)
            /\ resp' = NoOutcome
            /\ UNCHANGED <<sessions, conversations, messages, vector_db, call, ncalls>>
    /\ log_request("sequential_questioning_follow_up")

\* generate_follow_up_questions: the follow-up call has ended
FollowUpResume ==
    /\ ep.endpoint = "follow_up" /\ ep.pc = "await"
    /\ call.pc = "idle" /\ resp.status # "none"
    /\ UNCHANGED <<sessions, conversations, messages, vector_db, call, ncalls, nreq, writers, startup>>
    /\ resp' = NoOutcome
    /\ IF resp.status = "returned"
       THEN /\ result' = [NoResult EXCEPT !.status = "response", !.status_code = 200,
                                          !.response = resp.response]
            /\ ep' = [ep EXCEPT !.pc = "done"]
            /\ UNCHANGED waits
       ELSE RetryOrFail(resp.error)
    /\ log_request("sequential_questioning_follow_up")

\* automatic_sequential_questioning: one pass of the loop up to the initial
\* call, made with the request as it arrived
AutomaticAttempt(fault, error, hits) ==
    /\ ep.endpoint = "automatic" /\ ep.pc = "attempt" /\ call.pc = "idle"
    /\ begin_generate_question(ep.request, fault, error, hits)
    /\ ep' = [ep EXCEPT !.pc = "await_initial", !.attempts = @ + 1,
                        !.initial_questions = NoResponse, !.follow_up_rounds = <<>>,
                        !.all_questions = <<>>, !.current_round = 0, !.round_limit = 0]
    /\ UNCHANGED <<result, waits, nreq, writers, startup>>
    /\ log_request("sequential_questioning_automatic")

\* the request of the follow-up rounds
FollowUpRequest(request, initial_questions) ==
    [user_id |-> NoUser,
     conversation_id |-> initial_questions.conversation_id,
     session_id |-> initial_questions.session_id,
     context |-> request.context,
     previous_messages |-> request.previous_messages]

\* faulty variant of Min: the cap is taken whatever the request asks
MinIgnored(a, b) == b

\* min(request.max_rounds, 3)
Min(a, b) == IF a < b THEN a ELSE b

\* faulty variant of AutomaticResponse: only the initial batch is counted
AutomaticResponseInitialOnly(e) ==
    [initial_questions |-> e.initial_questions,
     follow_up_questions |-> e.follow_up_rounds,
     conversation_id |-> e.initial_questions.conversation_id,
     session_id |-> e.initial_questions.session_id,
     total_questions |-> Len(e.initial_questions.questions),
     rounds_generated |-> 1 + Len(e.follow_up_rounds),
     auto_follow_up |-> e.auto_handle_follow_up]

\* AutomaticQuestioningResponse as the handler fills it
AutomaticResponse(e) ==
    [initial_questions |-> e.initial_questions,
     follow_up_questions |-> e.follow_up_rounds,
     conversation_id |-> e.initial_questions.conversation_id,
     session_id |-> e.initial_questions.session_id,
     total_questions |-> Len(e.all_questions),
     rounds_generated |-> 1 + Len(e.follow_up_rounds),
     auto_follow_up |-> e.auto_handle_follow_up]

\* end of a pass: the response is built; its metadata field is declared
\* Dict[str, str] and is given an integer and a boolean, so whether the
\* construction raises is left to the validation (rejected)
AutomaticFinish(e, rejected) ==
    IF rejected
    THEN LET retry_count == e.retry_count + 1
         IN IF retry_count >= max_retries
            THEN /\ result' = HttpError(500, max_retries, "other")
                 /\ ep' = Left(e, "done", retry_count)
                 /\ UNCHANGED waits
            ELSE /\ waits' = Append(waits, Backoff(retry_count))
                 /\ ep' = Left(e, "attempt", retry_count)
                 /\ UNCHANGED result
    ELSE /\ result' = [NoResult EXCEPT !.status = "response", !.status_code = 200,
                                       !.automatic = AutomaticResponse(e)]
         /\ ep' = Left(e, "done", e.retry_count)
         /\ UNCHANGED waits

\* automatic_sequential_questioning: the initial call has ended
AutomaticInitialResume(fault, error, hits, rejected) ==
    /\ ep.endpoint = "automatic" /\ ep.pc = "await_initial"
    /\ call.pc = "idle" /\ resp.status # "none"
    /\ UNCHANGED <<nreq, writers, startup>>
    /\ IF resp.status = "returned"
       THEN LET initial_questions == resp.response
                wanted == /\ has_previous_messages(ep.request.previous_messages)
                          /\ initial_questions.next_batch_needed
                          /\ ep.auto_handle_follow_up
                limit == Min(ep.max_rounds, RoundCap)
                e == [ep EXCEPT !.initial_questions = initial_questions,
                                !.all_questions = initial_questions.questions,
                                !.current_round = IF wanted THEN 1 ELSE 0,
                                !.round_limit = IF wanted THEN limit ELSE 0]
            IN IF wanted /\ 1 < limit /\ initial_questions.next_batch_needed
               THEN /\ ~rejected
                    /\ begin_generate_question(FollowUpRequest(ep.request, initial_questions),
                                               fault, error, hits)
                    /\ ep' = [e EXCEPT !.pc = "await_round"]
                    /\ UNCHANGED <<result, waits>>
               ELSE /\ fault = "none" /\ error = "other" /\ hits = 0
                    /\ AutomaticFinish(e, rejected)
                    /\ resp' = NoOutcome
            /\ UNCHANGED <<sessions, conversations, messages, vector_db, call, ncalls>>
       ELSE /\ fault = "none" /\ error = "other" /\ hits = 0 /\ ~rejected
            /\ RetryOrFail(resp.error)
            /\ resp' = NoOutcome
            /\ UNCHANGED <<sessions, conversations, messages, vector_db, call, ncalls>>
    /\ log_request("sequential_questioning_automatic")

\* automatic_sequential_questioning: a follow-up round has ended
AutomaticRoundResume(fault, error, hits, rejected) ==
    /\ ep.endpoint = "automatic" /\ ep.pc = "await_round"
    /\ call.pc = "idle" /\ resp.status # "none"
    /\ UNCHANGED <<nreq, writers, startup>>
    /\ IF resp.status = "returned"
       THEN LET follow_up == resp.response
                e == [ep EXCEPT !.follow_up_rounds = Append(@, follow_up),
                                !.all_questions = @ \o follow_up.questions]
                next == [e EXCEPT !.current_round = @ + 1]
            IN IF follow_up.next_batch_needed
                  /\ next.current_round < next.round_limit
                  /\ next.initial_questions.next_batch_needed
               THEN /\ ~rejected
                    /\ begin_generate_question(FollowUpRequest(ep.request, ep.initial_questions),
                                               fault, error, hits)
                    /\ ep' = [next EXCEPT !.pc = "await_round"]
                    /\ UNCHANGED <<result, waits>>
               ELSE /\ fault = "none" /\ error = "other" /\ hits = 0
                    /\ AutomaticFinish(IF follow_up.next_batch_needed THEN next ELSE e, rejected)
                    /\ resp' = NoOutcome
            /\ UNCHANGED <<sessions, conversations, messages, vector_db, call, ncalls>>
       ELSE /\ fault = "none" /\ error = "other" /\ hits = 0 /\ ~rejected
            /\ RetryOrFail(resp.error)
            /\ resp' = NoOutcome
            /\ UNCHANGED <<sessions, conversations, messages, vector_db, call, ncalls>>
    /\ log_request("sequential_questioning_automatic")

----------------------------------------------------------------------------
(* Specifications *)

Init ==
    /\ sessions = <<>>
    /\ conversations = <<>>
    /\ messages = <<>>
    /\ call = IdleCall
    /\ resp = NoOutcome
    /\ ncalls = 0
    /\ ep = IdleEp
    /\ result = NoResult
    /\ waits = <<>>
    /\ nreq = 0
    /\ vector_db = NoVectors
    /\ metrics = NoMetrics
    /\ writers = NoWriters
    /\ startup = NoStartup

\* what the vector store does with a search that is issued: it fails, or it
\* holds some number of matching points; a search that is not issued has no
\* results
Hits(request) == IF SearchIssued(request) THEN {SearchFails} \cup 0..SearchLimit ELSE {0}

\* a caller invokes generate_question directly
GenerateQuestion ==
    /\ ep.pc = "idle" /\ call.pc = "idle"
    /\ ncalls < MaxCalls
    /\ \E request \in Requests(conversations, {UnknownId}, PreviousLists), fault \in ResolveFaults :
         \E hits \in Hits(request) :
            begin_generate_question(request, fault, "other", hits)
    /\ UNCHANGED <<ep, result, waits, nreq, writers, startup, metrics>>

\* index of the message whose creation raises, 0 for no fault
PersistFaults == 0..InitialBatchSize

FirstModelCall(replies, faults, vfaults, errors) ==
    /\ \E reply \in replies, fault \in faults, vfault \in vfaults, error \in errors :
          /\ fault = 0 => error = "other"
          /\ first_model_call(reply, fault, vfault, error)
    /\ UNCHANGED <<ep, result, waits, nreq, writers, startup, metrics>>

SecondModelCall(replies, faults, vfaults, errors) ==
    /\ \E reply \in replies, fault \in faults, vfault \in vfaults, error \in errors :
          /\ fault = 0 => error = "other"
          /\ second_model_call(reply, fault, vfault, error)
    /\ UNCHANGED <<ep, result, waits, nreq, writers, startup, metrics>>

Next ==
    \/ GenerateQuestion
    \/ FirstModelCall(BatchReplies({"other"}), PersistFaults, {NoVectorFault}, {"other"})
    \/ SecondModelCall(MetadataReplies, PersistFaults, {NoVectorFault}, {"other"})

Spec == Init /\ [][Next]_vars

----------------------------------------------------------------------------
(* The endpoints, one request at a time *)

Plain(body) == [raises |-> FALSE, error |-> "",
                content |-> [prose |-> FALSE, fence |-> "none", body |-> body]]

\* model replies used under the endpoints: the call raises, the text does
\* not parse, or it is a full list of question objects; the assessment does
\* not parse or answers yes or no
ApiBatchReplies ==
    {[raises |-> TRUE, error |-> e, content |-> [prose |-> FALSE, fence |-> "none", body |-> Garbage]]
        : e \in ErrorMessages} \cup
    {Plain(Garbage),
     Plain([t |-> "list", questions_key |-> FALSE,
            items |-> ModelList(TRUE, <<"question_text">>, InitialBatchSize)])}

ApiMetadataReplies ==
    {Plain(b) : b \in {MetadataGarbage} \cup {j \in MetadataJson : j.has_next}}

\* faults injected under the endpoints
ApiResolveFaults == {"none", "session"}
ApiPersistFaults == {0}

\* the vector search of an endpoint call finds nothing or a full page
ApiHits(request) == Hits(request) \cap {0, SearchLimit}

ReceiveRequest ==
    \E endpoint \in Endpoints, request \in Requests(conversations, {}, PreviousMessages),
       auto_handle_follow_up \in BOOLEAN, rounds \in 1..RoundCap :
        /\ request.previous_messages.is_none => endpoint = "follow_up"
        /\ Receive(endpoint, request, auto_handle_follow_up, rounds)

\* the choices left to the environment when a handler calls generate_question
Question ==
    \/ \E fault \in ApiResolveFaults, error \in ErrorMessages, hits \in ApiHits(ep.request) :
          /\ fault = "none" => error = "other"
          /\ QuestionAttempt(fault, error, hits)
    \/ QuestionResume

FollowUp ==
    \/ \E fault \in ApiResolveFaults, error \in ErrorMessages, hits \in ApiHits(ep.request) :
          /\ fault = "none" => error = "other"
          /\ \/ FollowUpAttempt(fault, error, hits)
             \/ FollowUpBootstrapResume(fault, error, hits)
    \/ FollowUpResume

Automatic ==
    \E fault \in ApiResolveFaults, error \in ErrorMessages, hits \in ApiHits(ep.request),
       rejected \in BOOLEAN :
          /\ fault = "none" => error = "other"
          /\ \/ AutomaticAttempt(fault, error, hits) /\ ~rejected
             \/ AutomaticInitialResume(fault, error, hits, rejected)
             \/ AutomaticRoundResume(fault, error, hits, rejected)

NextApi ==
    \/ ReceiveRequest
    \/ Question
    \/ FollowUp
    \/ Automatic
    \/ FirstModelCall(ApiBatchReplies, ApiPersistFaults, {NoVectorFault}, ErrorMessages)
    \/ SecondModelCall(ApiMetadataReplies, ApiPersistFaults, {NoVectorFault}, ErrorMessages)

SpecApi == Init /\ [][NextApi]_vars

----------------------------------------------------------------------------
(* The /question and /question/follow-up endpoints of a service whose      *)
(* store already holds the first batch of a user                           *)

\* the frame of the call that gave user u1 the initial batch
StoredCall ==
    [IdleCall EXCEPT !.session_id = 1, !.conversation_id = 1,
                     !.starting_question_number = 1, !.batch_size = InitialBatchSize,
                     !.questions_batch = [i \in 1..InitialBatchSize |->
                                            RepairItem(ModelItem(TRUE, <<"question_text">>, i),
                                                       i - 1, 1)]]

\* the store after user u1 was given an initial batch
InitStored ==
    /\ sessions = <<[user_identifier |-> "u1"]>>
    /\ conversations = <<[user_session_id |-> 1, is_active |-> TRUE]>>
    /\ messages = PersistQuestions(<<>>, StoredCall, InitialBatchSize)
    /\ call = IdleCall
    /\ resp = NoOutcome
    /\ ncalls = 0
    /\ ep = IdleEp
    /\ result = NoResult
    /\ waits = <<>>
    /\ nreq = 0
    /\ vector_db = NoVectors
    /\ metrics = NoMetrics
    /\ writers = NoWriters
    /\ startup = NoStartup

\* a request arrives, its conversation id absent, stored or unknown
ReceiveStored ==
    \E endpoint \in {"question", "follow_up"},
       request \in Requests(conversations, {UnknownId}, PreviousMessages) :
        /\ request.previous_messages.is_none => endpoint = "follow_up"
        /\ Receive(endpoint, request, TRUE, 2)

NextStored ==
    \/ ReceiveStored
    \/ Question
    \/ FollowUp
    \/ FirstModelCall(ApiBatchReplies, ApiPersistFaults, {NoVectorFault}, ErrorMessages)
    \/ SecondModelCall(ApiMetadataReplies, ApiPersistFaults, {NoVectorFault}, ErrorMessages)

SpecStored == InitStored /\ [][NextStored]_vars

----------------------------------------------------------------------------
(* Successive calls of generate_question by clients that send back the ids *)
(* they were given                                                         *)

\* a caller invokes generate_question, possibly naming a stored session
ResolveRequest ==
    /\ ep.pc = "idle" /\ call.pc = "idle"
    /\ ncalls < MaxResolves
    /\ \E request \in RequestsWithSession(sessions, conversations, {UnknownId}, PreviousLists),
          fault \in ResolveFaults :
         \E hits \in ApiHits(request) :
            begin_generate_question(request, fault, "other", hits)
    /\ UNCHANGED <<ep, result, waits, nreq, writers, startup, metrics>>

NextResolve ==
    \/ ResolveRequest
    \/ FirstModelCall(ApiBatchReplies, ApiPersistFaults, {NoVectorFault}, {"other"})
    \/ SecondModelCall(ApiMetadataReplies, ApiPersistFaults, {NoVectorFault}, {"other"})

SpecResolve == Init /\ [][NextResolve]_vars

----------------------------------------------------------------------------
(* Direct calls of store_embedding, with and without an id *)

\* number of store_embedding calls explored by SpecVector
MaxStores == 3

\* a caller (generate_question, VectorSearchService.store_context) stores a
\* text, the embedding or the upsert possibly failing
StoreEmbedding ==
    /\ vector_db.calls < MaxStores
    /\ \E id \in {NoId} \cup GivenIds, embedding_fails \in BOOLEAN, upsert_fails \in BOOLEAN :
          vector_db' = store_embedding(vector_db,
                                       [type |-> "context", conversation_id |-> None,
                                        session_id |-> None, batch_index |-> 0, message |-> 0],
                                       id, embedding_fails, upsert_fails)
    /\ UNCHANGED <<sessions, conversations, messages, call, resp, ncalls, ep, result, waits,
                   nreq, metrics, writers, startup>>

NextVector == StoreEmbedding

SpecVector == Init /\ [][NextVector]_vars

----------------------------------------------------------------------------
(* generate_question over a vector store and a database that fail *)

\* number of direct generate_question calls explored by SpecIndex
MaxIndexCalls == 2

\* the embedding of the first text fails, the upsert of the second or of
\* every text fails
VectorFaults ==
    {[embedding |-> e, upsert |-> u] : e \in {{}, {1}}, u \in {{}, {2}, 1..InitialBatchSize}}

\* the creation of the second or of the last message of a batch fails
IndexPersistFaults == {0, 2, FollowUpBatchSize}

IndexRequest ==
    /\ ep.pc = "idle" /\ call.pc = "idle"
    /\ ncalls < MaxIndexCalls
    /\ \E request \in Requests(conversations, {}, PreviousLists) :
         \E hits \in ApiHits(request) :
            begin_generate_question(request, "none", "other", hits)
    /\ UNCHANGED <<ep, result, waits, nreq, writers, startup, metrics>>

NextIndex ==
    \/ IndexRequest
    \/ FirstModelCall(ApiBatchReplies, IndexPersistFaults, VectorFaults, {"other"})
    \/ SecondModelCall(ApiMetadataReplies, IndexPersistFaults, VectorFaults, {"other"})

SpecIndex == Init /\ [][NextIndex]_vars

----------------------------------------------------------------------------
(* Two generate_question calls that persist their batches into the same    *)
(* conversation at the same time.  Each await of the persistence loop is a  *)
(* step: the read of the next sequence number, the creation of the         *)
(* message, the call of store_embedding.                                    *)

Writers == {1, 2}

\* a call that has its batch and enters the persistence loop; written lists
\* the messages it created, questions_batch is the batch the model gave it,
\* numbered from 1 as no question was stored when the call counted them
Writer(conversation_id, batch_size) ==
    [pc |-> "read", session_id |-> 1, conversation_id |-> conversation_id,
     batch_size |-> batch_size, index |-> 1, sequence_number |-> 0, written |-> <<>>,
     questions_batch |-> [i \in 1..batch_size |->
                            RepairItem(ModelItem(TRUE, <<"question_text">>, i), i - 1, 1)]]

\* user u1 has a session and a conversation, and two follow-up requests of
\* u1 for that conversation have each been given a batch by the model
InitWriters ==
    /\ sessions = <<[user_identifier |-> "u1"]>>
    /\ conversations = <<[user_session_id |-> 1, is_active |-> TRUE]>>
    /\ messages = <<>>
    /\ call = IdleCall
    /\ resp = NoOutcome
    /\ ncalls = 0
    /\ ep = IdleEp
    /\ result = NoResult
    /\ waits = <<>>
    /\ nreq = 0
    /\ vector_db = NoVectors
    /\ metrics = NoMetrics
    /\ writers = [w \in Writers |-> Writer(1, FollowUpBatchSize)]
    /\ startup = NoStartup

\* await get_next_sequence_number(db, conversation_id)
WriterRead(w) ==
    /\ writers[w].pc = "read"
    /\ writers' = [writers EXCEPT
                      ![w].pc = "create",
                      ![w].sequence_number =
                          get_next_sequence_number(messages, writers[w].conversation_id)]
    /\ UNCHANGED <<sessions, conversations, messages, call, resp, ncalls, ep, result, waits,
                   nreq, vector_db, metrics, startup>>

\* await message_repository.create(db, obj_in=message_data)
WriterCreate(w) ==
    /\ writers[w].pc = "create"
    /\ messages' = Append(messages, [conversation_id |-> writers[w].conversation_id,
                                     message_type |-> "question",
                                     batch_index |-> writers[w].index,
                                     metadata |-> MessageMetadata(
                                                     writers[w].questions_batch[writers[w].index],
                                                     writers[w].batch_size),
                                     sequence_number |-> writers[w].sequence_number])
    /\ writers' = [writers EXCEPT ![w].pc = "index",
                                  ![w].written = Append(@, Len(messages) + 1)]
    /\ UNCHANGED <<sessions, conversations, call, resp, ncalls, ep, result, waits,
                   nreq, vector_db, metrics, startup>>

\* await vector_db_service.store_embedding(...), then the next question
WriterIndex(w) ==
    /\ writers[w].pc = "index"
    /\ vector_db' = store_embedding(vector_db,
                                    Payload(writers[w], writers[w].index,
                                            writers[w].written[Len(writers[w].written)]),
                                    NoId, FALSE, FALSE)
    /\ writers' = [writers EXCEPT
                      ![w].pc = IF writers[w].index < writers[w].batch_size
                                THEN "read" ELSE "done",
                      ![w].index = IF writers[w].index < writers[w].batch_size
                                   THEN @ + 1 ELSE @]
    /\ UNCHANGED <<sessions, conversations, messages, call, resp, ncalls, ep, result, waits,
                   nreq, metrics, startup>>

NextWriters ==
    \/ \E w \in Writers : WriterRead(w)
    \/ \E w \in Writers : WriterCreate(w)
    \/ \E w \in Writers : WriterIndex(w)

SpecWriters == InitWriters /\ [][NextWriters]_vars

----------------------------------------------------------------------------
(* Construction of VectorDBService: _initialize has built the client and   *)
(* calls _ensure_collection_exists_with_retry.  The function is synchronous, *)
(* so each client call it makes returns or raises and the loop goes on.    *)

InitEnsure ==
    /\ sessions = <<>>
    /\ conversations = <<>>
    /\ messages = <<>>
    /\ call = IdleCall
    /\ resp = NoOutcome
    /\ ncalls = 0
    /\ ep = IdleEp
    /\ result = NoResult
    /\ waits = <<>>
    /\ nreq = 0
    /\ vector_db = NoVectors
    /\ metrics = NoMetrics
    /\ writers = NoWriters
    /\ \E exists \in BOOLEAN :
          startup = [NoStartup EXCEPT !.pc = "get_collections", !.exists = exists,
                                      !.retry_delay = EnsureRetryDelay]

\* self.client.get_collections()
EnsureGetCollections ==
    /\ startup.pc = "get_collections"
    /\ \E outcome \in ClientOutcomes : startup' = ensure_get_collections(startup, outcome)
    /\ UNCHANGED <<sessions, conversations, messages, call, resp, ncalls, ep, result, waits,
                   nreq, vector_db, metrics, writers>>

\* self.client.create_collection(...)
EnsureCreateCollection ==
    /\ startup.pc = "create_collection"
    /\ \E outcome \in ClientOutcomes : startup' = ensure_create_collection(startup, outcome)
    /\ UNCHANGED <<sessions, conversations, messages, call, resp, ncalls, ep, result, waits,
                   nreq, vector_db, metrics, writers>>

NextEnsure ==
    \/ EnsureGetCollections
    \/ EnsureCreateCollection

SpecEnsure == InitEnsure /\ [][NextEnsure]_vars /\ WF_vars(NextEnsure)

----------------------------------------------------------------------------
(* Concurrent calls of generate_question in their resolution phase: each   *)
(* await of _get_or_create_session and _get_or_create_conversation is a    *)
(* step of its own, every create committing by itself                      *)

Resolvers == {1, 2, 3}

\* a call of generate_question for a request that names no conversation,
\* before its first await
Resolver(user_id) ==
    [pc |-> "get_session", user_id |-> user_id, session_id |-> None,
     conversation_id |-> None]

\* the session of u1 is stored or not, and three requests arrive together,
\* each with the user identifier u1 or none
InitResolvers ==
    /\ sessions \in {<<>>, <<[user_identifier |-> "u1"]>>}
    /\ conversations = <<>>
    /\ messages = <<>>
    /\ call = IdleCall
    /\ resp = NoOutcome
    /\ ncalls = 0
    /\ ep = IdleEp
    /\ result = NoResult
    /\ waits = <<>>
    /\ nreq = 0
    /\ vector_db = NoVectors
    /\ metrics = NoMetrics
    /\ writers \in [Resolvers -> {Resolver(u) : u \in {NoUser} \cup Users}]
    /\ startup = NoStartup

\* await user_session_repository.get_by_user_identifier(...), made only for
\* a request with a user id
ResolverGetSession(w) ==
    /\ writers[w].pc = "get_session"
    /\ LET session == IF writers[w].user_id # NoUser
                       THEN get_by_user_identifier(sessions, writers[w].user_id)
                       ELSE None
       IN writers' = [writers EXCEPT
                         ![w].pc = IF session = None THEN "create_session"
                                   ELSE "get_conversation",
                         ![w].session_id = session]
    /\ UNCHANGED <<sessions, conversations, messages, call, resp, ncalls, ep, result, waits,
                   nreq, vector_db, metrics, startup>>

\* await user_session_repository.create(...)
ResolverCreateSession(w) ==
    /\ writers[w].pc = "create_session"
    /\ sessions' = Append(sessions, [user_identifier |-> writers[w].user_id])
    /\ writers' = [writers EXCEPT ![w].pc = "get_conversation",
                                  ![w].session_id = Len(sessions) + 1]
    /\ UNCHANGED <<conversations, messages, call, resp, ncalls, ep, result, waits,
                   nreq, vector_db, metrics, startup>>

\* await conversation_repository.get_active_by_user_session_id(...)
ResolverGetConversation(w) ==
    /\ writers[w].pc = "get_conversation"
    /\ LET conversation == get_active_by_user_session_id(conversations, writers[w].session_id)
       IN writers' = [writers EXCEPT
                         ![w].pc = IF conversation = None THEN "create_conversation"
                                   ELSE "resolved",
                         ![w].conversation_id = conversation]
    /\ UNCHANGED <<sessions, conversations, messages, call, resp, ncalls, ep, result, waits,
                   nreq, vector_db, metrics, startup>>

\* await conversation_repository.create(...)
ResolverCreateConversation(w) ==
    /\ writers[w].pc = "create_conversation"
    /\ conversations' = Append(conversations,
                               [user_session_id |-> writers[w].session_id, is_active |-> TRUE])
    /\ writers' = [writers EXCEPT ![w].pc = "resolved",
                                  ![w].conversation_id = Len(conversations) + 1]
    /\ UNCHANGED <<sessions, messages, call, resp, ncalls, ep, result, waits,
                   nreq, vector_db, metrics, startup>>

NextResolvers ==
    \/ \E w \in Resolvers : ResolverGetSession(w)
    \/ \E w \in Resolvers : ResolverCreateSession(w)
    \/ \E w \in Resolvers : ResolverGetConversation(w)
    \/ \E w \in Resolvers : ResolverCreateConversation(w)

SpecResolvers == InitResolvers /\ [][NextResolvers]_vars

----------------------------------------------------------------------------
(* The /question and /question/follow-up endpoints over a database whose   *)
(* message creation fails                                                  *)

\* the creation of the first, the second or the third message of a batch
\* fails
RetryPersistFaults == 0..FollowUpBatchSize

NextRetry ==
    \/ ReceiveStored
    \/ Question
    \/ FollowUp
    \/ FirstModelCall(ApiBatchReplies, RetryPersistFaults, {NoVectorFault}, {"other"})
    \/ SecondModelCall(ApiMetadataReplies, RetryPersistFaults, {NoVectorFault}, {"other"})

SpecRetry == InitStored /\ [][NextRetry]_vars

----------------------------------------------------------------------------
(* Properties of generate_question (specification Spec) *)

\* the batch size a request is entitled to
ExpectedBatchSize(request) ==
    IF request.previous_messages.is_none \/ request.previous_messages.roles = <<>>
    THEN InitialBatchSize ELSE FollowUpBatchSize

\* the call in progress ends in this step with a response
Responds == call.pc # "idle" /\ resp'.status = "returned"

\* number of question messages stored for the conversation of the call in
\* progress
PriorQuestions ==
    Cardinality({m \in DOMAIN messages :
                    /\ messages[m].conversation_id = call.conversation_id
                    /\ messages[m].message_type = "question"})

\* C1: every response of generate_question carries exactly as many questions
\* as its total_questions_in_batch, and that number is the batch size of the
\* request (5 without previous messages, 3 with), whatever the first model
\* response was.
C1_BatchLengthExact ==
    [][Responds =>
          /\ Len(resp'.response.questions) = resp'.response.total_questions_in_batch
          /\ Len(resp'.response.questions) = ExpectedBatchSize(call.request)]_vars

\* a response of five questions whose tail was padded after a short model list
C1_Witness ==
    /\ resp.status = "returned"
    /\ Len(resp.response.questions) = InitialBatchSize
    /\ resp.response.questions[1].question_text = "model"
    /\ resp.response.questions[InitialBatchSize].question_text = "filler"

\* C2: in every response the question numbers are prior + 1, ..., prior +
\* batch size in array order, prior being the number of questions stored for
\* the conversation before the call, and current_question_number is
\* prior + 1, for every model output.
C2_NumbersContiguous ==
    [][Responds =>
          /\ resp'.response.current_question_number = PriorQuestions + 1
          /\ \A i \in DOMAIN resp'.response.questions :
                resp'.response.questions[i].question_number = PriorQuestions + i]_vars

\* C3: when the first model call raises, generate_question still returns a
\* response with batch-size fallback questions, fallback_generation true and
\* the heuristic continuation metadata.
C3_FirstCallFailureFallsBack ==
    [][(call.pc = "llm1" /\ resp'.first_call = "raised") =>
          /\ resp'.status = "returned"
          /\ Len(resp'.response.questions) = ExpectedBatchSize(call.request)
          /\ resp'.response.metadata.batch_metadata.fallback_generation
          /\ resp'.response.next_batch_needed
                = (PriorQuestions + 1 + ExpectedBatchSize(call.request) < HeuristicThreshold)]_vars

\* C7: a follow-up call that names a conversation holding five questions and
\* brings one user message returns three questions numbered 6, 7, 8 under the
\* same conversation id, its first number being the stored count plus one.
C7_FollowUpContinuesNumbering ==
    [][(/\ Responds
        /\ call.request.conversation_id = call.conversation_id
        /\ call.request.previous_messages.roles = <<"user">>
        /\ PriorQuestions = InitialBatchSize) =>
          /\ resp'.response.conversation_id = call.request.conversation_id
          /\ resp'.response.current_question_number = PriorQuestions + 1
          /\ [i \in DOMAIN resp'.response.questions |->
                 resp'.response.questions[i].question_number] = <<6, 7, 8>>]_vars

----------------------------------------------------------------------------
(* Properties of the endpoints (specification SpecApi) *)

\* C4: each endpoint attempts its pipeline at most three times for one
\* request, and exactly once when the first attempt succeeds.
C4_AttemptsBounded ==
    /\ ep.attempts <= 3
    /\ (ep.pc = "done" /\ result.status = "response" /\ ep.retry_count = 0) => ep.attempts = 1

\* a request answered on its third attempt
C4_Witness ==
    ep.pc = "done" /\ result.status = "response" /\ ep.attempts = 3

\* C5: a handler whose three attempts all raised, whatever the messages,
\* ends with a 500 error naming the attempt count and the last error; it
\* never ends without a response or an error.
C5_ExhaustionRaises500 ==
    (ep.pc = "done" /\ result.status # "response" /\ ep.attempts = 3) =>
        /\ result.status = "http_error"
        /\ result.status_code = 500
        /\ result.attempts_named = 3
        /\ result.error \in ErrorMessages

\* C6: a follow-up request whose previous_messages is absent or empty is
\* refused with status 400 in its first attempt: no retry, no wait, no call
\* of generate_question, and the store is left as it was.
C6_FollowUpValidation ==
    [][(/\ ep.endpoint = "follow_up" /\ ep.pc = "attempt"
        /\ (ep.request.previous_messages.is_none \/ ep.request.previous_messages.roles = <<>>)) =>
          /\ ep'.pc = "done" /\ ep'.attempts = 1
          /\ result'.status = "http_error" /\ result'.status_code = 400
          /\ store' = store /\ ncalls' = ncalls /\ call' = call /\ waits' = <<>>]_vars

\* a follow-up request with an empty list was refused
C6_Witness ==
    /\ ep.endpoint = "follow_up" /\ ep.pc = "done"
    /\ ~ep.request.previous_messages.is_none /\ ep.request.previous_messages.roles = <<>>
    /\ result.status_code = 400

\* an automatic request was answered
AutomaticAnswered ==
    ep.endpoint = "automatic" /\ ep.pc = "done" /\ result.status = "response"

\* C8: an automatic request with max_rounds 2, previous messages, automatic
\* follow-up on and a first round that asks for another batch is answered
\* with exactly one follow-up round, rounds_generated 2 and total_questions 8.
C8_TwoRoundsEightQuestions ==
    (/\ AutomaticAnswered
     /\ ep.max_rounds = 2 /\ ep.auto_handle_follow_up
     /\ ep.request.previous_messages.roles # <<>>
     /\ result.automatic.initial_questions.next_batch_needed) =>
        /\ Len(result.automatic.follow_up_questions) = 1
        /\ result.automatic.rounds_generated = 2
        /\ result.automatic.total_questions = 8

C10_RoundsShareSession ==
    [][ep.endpoint = "automatic" =>
          /\ (ep'.pc = "await_round" /\ ncalls' # ncalls) =>
                (sessions' = sessions /\ conversations' = conversations)
          /\ (ep.pc = "await_round" /\ call.pc # "idle" /\ resp'.status = "returned") =>
                /\ resp'.response.conversation_id = ep.initial_questions.conversation_id
                /\ resp'.response.session_id = ep.initial_questions.session_id]_vars

----------------------------------------------------------------------------
(* Properties of the resolution (specification SpecResolve) *)

\* a call of generate_question passes its resolution phase in this step
Resolves == call.pc = "idle" /\ call'.pc = "llm1"

\* C11: a generation request that carries the id of a stored session and the
\* id of a stored conversation of that session, as a second request of a
\* client does, creates no session record and no conversation record: what
\* is already resolvable is never re-created.
C11_ResolutionIdempotent ==
    [][(/\ Resolves
        /\ call'.request.session_id \in DOMAIN sessions
        /\ call'.request.conversation_id \in DOMAIN conversations
        /\ conversations[call'.request.conversation_id].user_session_id
              = call'.request.session_id) =>
          /\ Len(sessions') = Len(sessions)
          /\ Len(conversations') = Len(conversations)]_vars

\* stored sessions of a user identifier
UserSessions(user_id) ==
    {s \in DOMAIN sessions : sessions[s].user_identifier = user_id}

\* C12: a request carrying a user identifier for which a session is stored
\* creates no session and is answered with the id of that one session; when
\* it also carries the id of a stored conversation, as returned by an earlier
\* request, it is answered with that conversation id.
C12_UserKeepsSession ==
    [][/\ (Resolves /\ call'.request.user_id # NoUser
                    /\ UserSessions(call'.request.user_id) # {}) =>
             /\ sessions' = sessions
             /\ UserSessions(call'.request.user_id) = {call'.session_id}
       /\ (Responds /\ call.request.user_id # NoUser) =>
             /\ UserSessions(call.request.user_id) = {resp'.response.session_id}
             /\ call.request.conversation_id \in DOMAIN conversations =>
                   resp'.response.conversation_id = call.request.conversation_id]_vars

\* the second request of a user, carrying the conversation id its first
\* request was given, is being served on the same session and conversation
C12_Witness ==
    /\ ncalls = 2 /\ call.pc = "llm2" /\ Len(messages) = InitialBatchSize
    /\ call.request.user_id = "u1" /\ call.request.conversation_id = 1
    /\ Len(sessions) = 1 /\ call.session_id = 1 /\ call.conversation_id = 1

----------------------------------------------------------------------------
(* Properties of the stored messages and of the batch (specification Spec) *)

\* C13: with one writer at a time, the messages of each conversation carry,
\* in creation order, the sequence numbers 1, 2, 3, ...: strictly increasing,
\* starting at 1, without gap or duplicate.
C13_SequenceNumbersGapless ==
    \A m \in DOMAIN messages :
        messages[m].sequence_number =
            Cardinality({k \in 1..m : messages[k].conversation_id = messages[m].conversation_id})

\* a conversation that received a second batch after a first one
C13_Witness ==
    \E m \in DOMAIN messages :
        messages[m].sequence_number = InitialBatchSize + FollowUpBatchSize

\* C14: when the model returned k items, k less than the batch size, the
\* batch is padded to exactly the batch size with batch size - k fillers, and
\* the filler at array index i (0-based, k <= i < batch size) has question
\* number starting_question_number + i.
C14_PaddingContinuesNumbering ==
    (call.pc = "llm2" /\ call.kept < ExpectedBatchSize(call.request)) =>
        /\ Len(call.questions_batch) = ExpectedBatchSize(call.request)
        /\ \A i \in 0..(Len(call.questions_batch) - 1) :
              IF i < call.kept
              THEN call.questions_batch[i + 1].question_text # "filler"
              ELSE call.questions_batch[i + 1] =
                      [question_text |-> "filler",
                       question_number |-> call.starting_question_number + i]

\* a follow-up batch on a conversation holding five questions, padded after
\* the one item the model returned
C14_Witness ==
    /\ call.pc = "llm2" /\ call.kept = 1 /\ call.starting_question_number = 6
    /\ Len(call.questions_batch) = FollowUpBatchSize
    /\ call.questions_batch[FollowUpBatchSize].question_number = 8

----------------------------------------------------------------------------
(* Properties of the conversation resolution (specification SpecResolve) *)

\* stored active conversations of a session
ActiveConversations(session_id) ==
    {c \in DOMAIN conversations :
        conversations[c].user_session_id = session_id /\ conversations[c].is_active}

C16_OmittedIdStartsConversation ==
    [][(/\ Resolves
        /\ call'.request.user_id # NoUser
        /\ call'.request.conversation_id = None
        /\ call'.request.previous_messages.roles = <<>>
        /\ UserSessions(call'.request.user_id) # {}) =>
          /\ call'.session_id \in UserSessions(call'.request.user_id)
          /\ \A c \in DOMAIN conversations :
                conversations[c].user_session_id = call'.session_id =>
                    call'.conversation_id # c]_vars

----------------------------------------------------------------------------
(* Properties of the endpoints on a stored conversation (SpecStored) *)

\* C17: a follow-up request with previous messages and no conversation id
\* gets a conversation of its own: an initial generation (no previous
\* messages) runs first on a newly created conversation, the follow-up batch
\* is generated on the conversation id that generation returned, the response
\* carries that id, and no conversation stored before the request receives
\* a message.
C17_FollowUpBootstrapsConversation ==
    [][(ep'.endpoint = "follow_up" /\ ep'.bootstrapped) =>
          /\ (ep.pc = "attempt" /\ ep'.pc = "await_bootstrap" /\ call'.pc = "llm1") =>
                /\ call'.request.previous_messages.roles = <<>>
                /\ call'.conversation_id > ep'.conversations_at_receipt
          /\ (ep.pc = "await_bootstrap" /\ ep'.pc = "await" /\ call'.pc = "llm1") =>
                call'.conversation_id = resp.response.conversation_id
          /\ (ep'.pc = "done" /\ result'.status = "response") =>
                result'.response.conversation_id = ep'.request.conversation_id
          /\ \A m \in DOMAIN messages' :
                m > Len(messages) =>
                    messages'[m].conversation_id > ep'.conversations_at_receipt]_vars

\* C18: a request whose conversation id matches no stored conversation is
\* answered with a client error (400 or 404): no generation succeeds for it
\* and no conversation is created.
C18_UnknownConversationRejected ==
    [][(ep'.request.conversation_id \notin {None} \cup DOMAIN conversations
        /\ ep'.pc # "idle") =>
          /\ conversations' = conversations
          /\ ep'.pc = "done" =>
                (result'.status = "http_error" /\ result'.status_code \in {400, 404})]_vars

----------------------------------------------------------------------------
(* Properties of the fallback (specifications SpecApi and Spec) *)

\* the first model call of the call in progress returned a text that could
\* not be used, and the call ends in this step
UnusableFirstResponse ==
    call.pc = "llm1" /\ call'.pc = "idle" /\ resp'.first_call = "returned"

\* C19: when the first model response cannot be parsed or has an unusable
\* shape, generate_question does not raise but returns batch-size fallback
\* questions, and the endpoint answers on that attempt: its retry branch is
\* not entered for a parsing failure.
C19_ParseFailureNotRetried ==
    [][/\ UnusableFirstResponse =>
             /\ resp'.status = "returned"
             /\ Len(resp'.response.questions) = ExpectedBatchSize(call.request)
             /\ \A i \in DOMAIN resp'.response.questions :
                   resp'.response.questions[i].question_text = "fallback"
       /\ (/\ ep.endpoint \in {"question", "follow_up"} /\ ep.pc = "await"
           /\ resp.first_call = "returned" /\ call.pc = "idle"
           /\ resp.response.metadata.batch_metadata.fallback_generation
           /\ ep'.pc # ep.pc) =>
             /\ ep'.pc = "done" /\ result'.status = "response"
             /\ ep'.retry_count = ep.retry_count /\ waits' = waits]_vars

\* the flag of the response returned in this step
FlaggedFallback == resp'.response.metadata.batch_metadata.fallback_generation

\* C20 as stated: a response is flagged fallback_generation only if one of
\* the model calls of its generate_question call raised; a batch for which
\* the model calls returned is never flagged.
C20_FlagOnlyWhenModelRaised ==
    [][(Responds /\ FlaggedFallback) =>
          (resp'.first_call = "raised" \/ resp'.second_call = "raised")]_vars

\* C20: a response is flagged fallback_generation exactly when its batch is
\* the fallback batch, which replaces the model's batch when the processing
\* of the first response raised (not JSON, unusable shape) or the second
\* model call raised; a batch that only went through repair, truncation or
\* padding carries the model's items and is never flagged.
C20_FlagMarksFallbackBatch ==
    [][Responds =>
          /\ FlaggedFallback = (UnusableFirstResponse \/ resp'.second_call = "raised")
          /\ FlaggedFallback =
                (\A i \in DOMAIN resp'.response.questions :
                    resp'.response.questions[i].question_text = "fallback")
          /\ ~FlaggedFallback => resp'.response.questions = QuestionItems(call.questions_batch)]_vars

\* a flagged response although both model calls that were made returned
C20_Witness ==
    /\ resp.status = "returned"
    /\ resp.response.metadata.batch_metadata.fallback_generation
    /\ resp.first_call = "returned" /\ resp.second_call = "none"


----------------------------------------------------------------------------
(* Similarity retrieval and the vector store *)

\* the search of the call in progress failed or found nothing
SearchFruitless(c) ==
    /\ Len(c.searches) = 1
    /\ c.similar_contexts = "empty"

\* C21: the similarity search is attempted only for a request with previous
\* messages and a non-empty context, at most once, with limit 3 and the
\* resolved conversation id as filter; when it fails or finds nothing the
\* call goes on to the model with the request's context unchanged, and a
\* response it then gives carries a full batch that is not marked enhanced.
C21_RetrievalBestEffort ==
    [][/\ Resolves =>
            /\ Len(call'.searches) <= 1
            /\ \A i \in DOMAIN call'.searches :
                  /\ has_previous_messages(call'.request.previous_messages)
                  /\ call'.request.context # ""
                  /\ call'.searches[i].limit = 3
                  /\ call'.searches[i].filter_conversation_id = call'.conversation_id
                  /\ call'.searches[i].failed => call'.similar_contexts = "empty"
            /\ SearchFruitless(call') =>
                  call'.context = [text |-> call'.request.context, additional |-> 0]
       /\ (call.pc = "llm1" /\ SearchFruitless(call)) =>
            /\ call'.pc # "idle" => (call'.context = call.context /\ call'.searches = call.searches)
       /\ (Responds /\ SearchFruitless(call)) =>
            /\ Len(resp'.response.questions) = ExpectedBatchSize(call.request)
            /\ ~resp'.response.metadata.context_enhanced]_vars

\* the call reached its second model call after a search that failed
C21_Witness ==
    /\ call.pc = "llm2"
    /\ Len(call.searches) = 1 /\ call.searches[1].failed
    /\ call.context = [text |-> "Plan a trip", additional |-> 0]


\* C22: store_embedding never raises, and when its embedding or its upsert
\* fails, whether an id was given or not, the id it returns starts with
\* fallback-.
C22_StoreFailureGivesFallbackId ==
    /\ ~vector_db.last.raised
    /\ (vector_db.last.embedding_failed \/ vector_db.last.upsert_failed) =>
          StartsWithFallback(vector_db.last.returned)


----------------------------------------------------------------------------
(* Retry loops and request metrics (specification SpecApi) *)

\* a pass of a handler's loop ends in its except branch in this step
AttemptFails == ep'.retry_count = ep.retry_count + 1

\* the failure handled in this step is the initialization error in /question
InitRaceInQuestion ==
    /\ ep.endpoint = "question" /\ ep.pc = "await"
    /\ resp.status = "raised" /\ resp.error = InitRace

\* C23: in /question an attempt that fails with the initialization error is
\* followed by a wait of one second, never by the backoff wait, and it counts
\* toward the three attempts the loop makes at most.
C23_InitRaceWaitsOneSecond ==
    [][(AttemptFails /\ InitRaceInQuestion) =>
          /\ waits' = Append(waits, 1000)
          /\ ep'.attempts = ep.attempts /\ ep'.attempts <= 3
          /\ ep'.retry_count = ep.attempts
          /\ IF ep'.retry_count < 3 THEN ep'.pc = "attempt" ELSE ep'.pc = "done"]_vars

\* three attempts of /question, the first of them failed with the
\* initialization error
C23_Witness ==
    /\ ep.endpoint = "question" /\ ep.pc = "done" /\ ep.attempts = 3
    /\ Len(waits) >= 2 /\ waits[1] = 1000 /\ waits[2] = 1000

\* the schedule the backoff is said to follow, in milliseconds
C24_Schedule == <<500, 1000, 2000>>

LoggedAs(endpoint) ==
    IF endpoint = "question" THEN "sequential_questioning"
    ELSE IF endpoint = "follow_up" THEN "sequential_questioning_follow_up"
    ELSE "sequential_questioning_automatic"

\* requests and errors counted for an endpoint name
Counted(m, name) ==
    IF name \in DOMAIN m.endpoints THEN m.endpoints[name] ELSE [requests |-> 0, errors |-> 0]

\* C25: an invocation of an instrumented endpoint adds exactly 1 to the total
\* and to the endpoint's request counter, when the handler ends and however
\* many attempts it made, and adds exactly 1 to the two error counters if and
\* only if the handler ended by raising; no other step changes the counters.
C25_OneCountPerInvocation ==
    [][IF ep.pc \notin {"idle", "done"} /\ ep'.pc = "done"
       THEN LET name == LoggedAs(ep.endpoint)
                raised == IF result'.status = "http_error" THEN 1 ELSE 0
            IN /\ metrics'.requests = metrics.requests + 1
               /\ metrics'.errors = metrics.errors + raised
               /\ Counted(metrics', name).requests = Counted(metrics, name).requests + 1
               /\ Counted(metrics', name).errors = Counted(metrics, name).errors + raised
               /\ \A other \in DOMAIN metrics'.endpoints \ {name} :
                     Counted(metrics', other) = Counted(metrics, other)
       ELSE metrics' = metrics]_vars

\* a request that took three attempts and ended by raising is counted once
C25_Witness ==
    /\ ep.pc = "done" /\ ep.attempts = 3 /\ result.status = "http_error"
    /\ metrics.requests = 1 /\ metrics.errors = 1
    /\ Counted(metrics, LoggedAs(ep.endpoint)) = [requests |-> 1, errors |-> 1]


----------------------------------------------------------------------------
(* Concurrent writers (specification SpecWriters) *)

\* two different messages of one conversation with the same sequence number
SameNumber(m, k) ==
    /\ m # k
    /\ messages[m].conversation_id = messages[k].conversation_id
    /\ messages[m].sequence_number = messages[k].sequence_number

WrittenBy(w) == {writers[w].written[i] : i \in DOMAIN writers[w].written}

\* C26: the assignment of sequence numbers is not atomic.  A call by itself
\* numbers its messages increasingly, so two messages of a conversation that
\* hold the same sequence number were written by two different calls; with
\* two calls writing at the same time such a pair is reachable.
C26_DuplicatesOnlyAcrossWriters ==
    /\ \A w \in Writers :
          \A i, j \in DOMAIN writers[w].written :
             i < j => messages[writers[w].written[i]].sequence_number
                        < messages[writers[w].written[j]].sequence_number
    /\ \A m, k \in DOMAIN messages :
          SameNumber(m, k) => \A w \in Writers : ~({m, k} \subseteq WrittenBy(w))

\* both calls are done and two messages of the conversation hold the same
\* sequence number
C26_Witness ==
    /\ \A w \in Writers : writers[w].pc = "done"
    /\ \E m, k \in DOMAIN messages : SameNumber(m, k)


----------------------------------------------------------------------------
(* Persistence of a batch (specifications SpecIndex and SpecRetry) *)

\* the points added to the collection in this step
NewPoints ==
    {p \in DOMAIN vector_db'.points : p > Len(vector_db.points)}

\* C27: a call that responds has written one question message per question
\* of its response into the resolved conversation, after the messages already
\* stored and in array order (a later array index has a higher sequence
\* number), so that the conversation's question count grows by the batch
\* size; each text indexed by the call was indexed when its message was
\* already written.
C27_OneMessagePerQuestion ==
    [][Responds =>
          LET n == Len(resp'.response.questions)
              base == Len(messages)
          IN /\ n = call.batch_size
             /\ Len(messages') = base + n
             /\ SubSeq(messages', 1, base) = messages
             /\ \A i \in 1..n :
                   /\ messages'[base + i].message_type = "question"
                   /\ messages'[base + i].conversation_id = resp'.response.conversation_id
                   /\ messages'[base + i].conversation_id = call.conversation_id
                   /\ messages'[base + i].batch_index = i
             /\ \A i, j \in 1..n :
                   i < j => messages'[base + i].sequence_number
                              < messages'[base + j].sequence_number
             /\ count_by_conversation(messages', call.conversation_id, "question")
                   = count_by_conversation(messages, call.conversation_id, "question") + n
             /\ \A p \in NewPoints :
                   LET payload == vector_db'.points[p].payload
                   IN /\ payload.message = base + payload.batch_index
                      /\ payload.message \in DOMAIN messages'
                      /\ payload.conversation_id = call.conversation_id
             /\ vector_db'.calls = vector_db.calls + n]_vars

\* a call responded with five questions, all of them stored, although the
\* upsert of the second text failed
C27_Witness ==
    /\ resp.status = "returned"
    /\ Len(resp.response.questions) = 5
    /\ Len(messages) = 5
    /\ Len(vector_db.points) = 4
    /\ vector_db.calls = 5
    /\ \A p \in DOMAIN vector_db.points : vector_db.points[p].payload.batch_index # 2


\* the creation of a message of the batch fails in this step
PersistFails == call.pc # "idle" /\ resp'.persist.failed_at > 0

\* questions stored for a conversation
Stored(M, conversation_id) == count_by_conversation(M, conversation_id, "question")

\* C28: when the creation of the k-th message of a batch fails, the k-1
\* messages created before it stay stored and the call raises; the call of
\* the endpoint's next attempt, when it responds, has generated a full batch
\* for the same conversation, numbered from the number of questions stored
\* plus one, so that the conversation holds the partial set and the full
\* batch.
C28_PartialSetKept ==
    [][/\ PersistFails =>
            LET k == resp'.persist.failed_at
            IN /\ resp'.status = "raised"
               /\ Len(messages') = Len(messages) + (k - 1)
               /\ SubSeq(messages', 1, Len(messages)) = messages
               /\ Stored(messages', call.conversation_id)
                     = Stored(messages, call.conversation_id) + (k - 1)
       /\ (Responds /\ ep.pc # "idle" /\ ep.failed.failed_at > 0) =>
            LET conversation_id == ep.failed.conversation_id
                stored == Stored(messages, conversation_id)
            IN /\ resp'.response.conversation_id = conversation_id
               /\ Len(resp'.response.questions) = call.batch_size
               /\ resp'.response.current_question_number = stored + 1
               /\ resp'.response.questions[1].question_number = stored + 1
               /\ Stored(messages', conversation_id) = stored + call.batch_size]_vars


----------------------------------------------------------------------------
(* The continuation assessment (specification Spec) *)

\* the second model call returns in this step a text that cannot be parsed
AssessmentUnparsable == call.pc = "llm2" /\ resp'.second_call = "unparsable"

\* C29: when the second model response cannot be parsed, a response carries
\* next_batch_needed = (starting number + batch size < 8) and
\* total_questions_estimated = max(starting number + batch size + 2, 8),
\* whatever the starting number and the batch size, and its questions are
\* those built from the first model response.
C29_HeuristicOnUnparsableAssessment ==
    [][(AssessmentUnparsable /\ Responds) =>
          LET response == resp'.response
              reached == call.starting_question_number + call.batch_size
          IN /\ response.next_batch_needed = (reached < 8)
             /\ response.total_questions_estimated = (IF reached + 2 > 8 THEN reached + 2 ELSE 8)
             /\ response.metadata.batch_metadata.next_batch_needed = (reached < 8)
             /\ response.metadata.batch_metadata.total_questions_estimated
                   = (IF reached + 2 > 8 THEN reached + 2 ELSE 8)
             /\ ~response.metadata.batch_metadata.fallback_generation
             /\ response.questions = QuestionItems(call.questions_batch)]_vars

\* a second batch of three questions, numbered from 6, whose assessment
\* could not be parsed: no further batch is asked for and 11 are estimated
C29_Witness ==
    /\ resp.status = "returned" /\ resp.second_call = "unparsable"
    /\ resp.response.current_question_number = 6
    /\ Len(resp.response.questions) = 3
    /\ ~resp.response.next_batch_needed
    /\ resp.response.total_questions_estimated = 11


----------------------------------------------------------------------------
(* Requests whose previous messages hold no user message *)

\* a non-empty context and previous messages none of which has the role user
NoUserMessage(request) ==
    /\ request.context # ""
    /\ has_previous_messages(request.previous_messages)
    /\ \A i \in DOMAIN request.previous_messages.roles :
          request.previous_messages.roles[i] # "user"

\* the call in progress ends in this step, its model calls having returned
\* and every message of its batch having been created
EndsUnhindered ==
    /\ call.pc # "idle" /\ call'.pc = "idle"
    /\ resp'.first_call = "returned" /\ resp'.second_call # "raised"
    /\ Len(messages') = Len(messages) + call.batch_size

\* C30: a request with a non-empty context and previous messages none of
\* which has the role user issues no similarity search and, unless a model
\* call or the database fails, ends with a response of 3 questions, 3
\* question messages having been stored for it.
C30_NoUserMessageCompletes ==
    [][/\ (Resolves /\ NoUserMessage(call'.request)) => call'.searches = <<>>
       /\ (EndsUnhindered /\ NoUserMessage(call.request)) =>
            /\ call.batch_size = 3
            /\ resp'.status = "returned"
            /\ Len(resp'.response.questions) = 3]_vars

----------------------------------------------------------------------------
(* The rounds of the automatic flow (specification SpecApi) *)

RECURSIVE BatchLengths(_)
\* the sum of the batch lengths of a sequence of responses
BatchLengths(rounds) ==
    IF rounds = <<>> THEN 0
    ELSE Len(Head(rounds).questions) + BatchLengths(Tail(rounds))

\* a follow-up round of the automatic flow returns in this step and reports
\* that no further batch is needed
RoundEndsFlow ==
    /\ ep.endpoint = "automatic" /\ ep.pc = "await_round"
    /\ call.pc # "idle" /\ resp'.status = "returned"
    /\ ~resp'.response.next_batch_needed

----------------------------------------------------------------------------
(* The batch returned once the first response has been processed *)

\* the call in progress, its batch built from the first response, gives its
\* response in this step
RespondsAfterAssessment == call.pc = "llm2" /\ Responds

\* C32: the fallback batch is substituted only when a question-producing
\* step fails: once the first response has been parsed and normalised, the
\* questions of the response are those items, whether the second model call
\* returns an assessment, returns text that does not parse, or raises.
C32_QuestionsSurviveAssessment ==
    [][RespondsAfterAssessment =>
          /\ resp'.response.questions = QuestionItems(call.questions_batch)
          /\ ~FlaggedFallback]_vars

----------------------------------------------------------------------------
(* The pair of ids of a response (specification SpecResolve) *)

\* C33: in every response the conversation named by conversation_id belongs
\* to the session named by session_id, whatever user_id, session_id and
\* conversation_id the request supplied.
C33_ConversationBelongsToSession ==
    [][Responds =>
          /\ resp'.response.conversation_id \in DOMAIN conversations'
          /\ resp'.response.session_id \in DOMAIN sessions'
          /\ conversations'[resp'.response.conversation_id].user_session_id
                = resp'.response.session_id]_vars

----------------------------------------------------------------------------
(* Concurrent requests of one user (specification SpecResolvers) *)

\* C34: whatever the interleaving of concurrent requests that carry the same
\* user identifier, at most one session is stored for that identifier once
\* they have resolved their session.
C34_OneSessionPerUser ==
    (\A w \in DOMAIN writers : writers[w].pc \in {"get_conversation", "create_conversation", "resolved"}) =>
        \A u \in Users : Cardinality(UserSessions(u)) <= 1

----------------------------------------------------------------------------
(* The numbers of the persisted questions (specification SpecRetry) *)

\* the question messages of the conversation of message m stored up to m
QuestionsUpTo(m) ==
    {k \in 1..m : /\ messages[k].conversation_id = messages[m].conversation_id
                  /\ messages[k].message_type = "question"}

\* C35: with one writer per conversation and model outputs that carry no
\* question_number, after any sequence of attempts, those that fail partway
\* through the persistence and are retried included, the i-th persisted
\* question message of a conversation has question number i: the numbers
\* are 1..n without gap or duplicate.
C35_QuestionNumbersGapless ==
    \A m \in DOMAIN messages :
        messages[m].metadata.question_number = Cardinality(QuestionsUpTo(m))

\* a request is answered on the conversation in which an earlier attempt
\* stored part of its batch before failing
C35_Witness ==
    /\ ep.pc = "done" /\ result.status = "response"
    /\ ep.retry_count >= 1
    /\ ep.failed.failed_at >= 2
    /\ ep.failed.conversation_id = result.response.conversation_id
    /\ Stored(messages, result.response.conversation_id)
          > result.response.total_questions_in_batch

----------------------------------------------------------------------------
(* The batch_number of the persisted questions (specification Spec) *)

\* the messages the call in progress creates in this step
Created == (Len(messages) + 1)..Len(messages')

\* the messages stored for the conversation of the call before this step
Earlier == MessagesOf(messages, call.conversation_id)

\* C37: the question messages persisted by one generation call are all given
\* the same batch_number, and the batch_number of successive calls on one
\* conversation increases by 1 per call: 1 for the first batch, 2 for the
\* batch after it, and so on.
C37_BatchNumberPerCall ==
    [][(call.pc # "idle" /\ call'.pc = "idle") =>
          /\ \A m, k \in Created :
                 messages'[m].metadata.batch_number = messages'[k].metadata.batch_number
          /\ \A m \in Created :
                 messages'[m].metadata.batch_number =
                    IF Earlier = {} THEN 1
                    ELSE messages[get_latest_message(messages, call.conversation_id)]
                            .metadata.batch_number + 1]_vars

----------------------------------------------------------------------------
(* The calls made for one follow-up request (specification SpecRetry) *)

\* the bootstrap call of the follow-up request being served has returned
\* and the handler resumes in this step
BootstrapCompletes ==
    /\ ep.endpoint = "follow_up" /\ ep.pc = "await_bootstrap"
    /\ resp.status = "returned" /\ ep'.pc # "await_bootstrap"

\* C36: across the attempts of one follow-up request that arrived without a
\* conversation id the bootstrap generation completes at most once, the
\* later attempts reusing the conversation id it minted; generate_question
\* is called at most 4 times for the request, and at most 3 times for a
\* follow-up request that arrived with a conversation id.
C36_BootstrapOnceCallsBounded ==
    [][(ep.endpoint = "follow_up" /\ nreq' = nreq) =>
          /\ BootstrapCompletes =>
                /\ ep.request.conversation_id = None
                /\ ep'.request.conversation_id = resp.response.conversation_id
                /\ ep'.request.conversation_id # None
          /\ ep.request.conversation_id # None =>
                /\ ep'.request.conversation_id = ep.request.conversation_id
                /\ ep'.pc # "await_bootstrap"
          /\ ncalls' - ep.calls_at_receipt
                <= IF ep.bootstrapped THEN max_retries + 1 ELSE max_retries]_vars

\* a follow-up request that arrived without a conversation id has failed
\* after four calls of generate_question, one of them its bootstrap
C36_Witness ==
    /\ ep.endpoint = "follow_up" /\ ep.pc = "done" /\ ep.bootstrapped
    /\ ep.request.conversation_id # None
    /\ ep.attempts = max_retries
    /\ ncalls - ep.calls_at_receipt = max_retries + 1

----------------------------------------------------------------------------
(* Termination of the start of the vector store (specification SpecEnsure) *)

\* a client call of _ensure_collection_exists_with_retry is answered in this
\* step
ClientAnswers == startup.pc \in {"get_collections", "create_collection"} /\ startup' # startup

\* the call of _ensure_collection_exists in progress succeeds in this step
EnsureSucceeds ==
    /\ ClientAnswers /\ startup'.last = "ok"
    /\ startup.pc = "create_collection" \/ startup.exists

\* C38: _ensure_collection_exists_with_retry terminates.  It stops at the
\* first successful attempt; when every attempt fails with a connection
\* error it makes at most 5 attempts and then returns without raising; any
\* other error propagates at once, without a retry.
C38_EnsureTerminates ==
    /\ <>(startup.pc = "done")
    /\ [](startup.calls <= 5)
    /\ [](startup.outcome = "gave_up" =>
            /\ startup.calls = 5 /\ Len(startup.log) = 5
            /\ \A i \in DOMAIN startup.log : IsConnectionError(startup.log[i]))
    /\ [][/\ EnsureSucceeds =>
              startup'.pc = "done" /\ startup'.outcome = "returned"
          /\ (ClientAnswers /\ startup'.last = "other") =>
              /\ startup'.pc = "done" /\ startup'.outcome = "raised"
              /\ startup'.retries = startup.retries
              /\ startup'.sleeps = startup.sleeps
          /\ startup.pc = "done" => startup' = startup]_vars

\* five attempts have failed with a connection error and the function has
\* returned, four delays having been slept
C38_Witness ==
    /\ startup.pc = "done" /\ startup.outcome = "gave_up"
    /\ startup.calls = 5 /\ Len(startup.sleeps) = 4

====
